---- MODULE Spec2Model ----
(***************************************************************************)
(* Ingestion and deduplication core of The_Swiss_Job (backend/):           *)
(*   - services/circuit_breaker.py   CircuitBreaker                        *)
(*   - services/compliance.py        ComplianceEngine                      *)
(*   - services/job_repository.py    JobRepository                         *)
(*   - services/deduplicator.py      Deduplicator                          *)
(*   - tasks/fetch_tasks.py          fetch orchestrator                    *)
(*   - tasks/embedding_tasks.py, tasks/maintenance_tasks.py                *)
(* Three specifications share the module, one per component group:         *)
(*   SpecBreaker     one CircuitBreaker object and its concurrent callers  *)
(*   SpecCompliance  the source_compliance table under ComplianceEngine    *)
(*   Spec            the jobs table under fetch runs, embedding            *)
(*                   generation and semantic-dedup sweeps                  *)
(***************************************************************************)
EXTENDS Integers, Sequences, FiniteSets, TLC

VARIABLES
    \* ---- CircuitBreaker (one instance) ----
    circuit,            \* [state, failure_count, last_failure_time]
    monotonic,          \* time.monotonic()
    cb_calls,           \* per caller task: position inside call()
    fails_since_success,\* history: failed calls since the last successful one
    \* ---- ComplianceEngine ----
    source_compliance,  \* source_key -> SourceCompliance row
    now,                \* wall clock (datetime.now / SQL now())
    \* ---- jobs table and the sessions working on it ----
    jobs,               \* hash -> Job row, as the session at work sees it
    committed,          \* hash -> Job row, as of the last commit
    savepoint,          \* the table at the open begin_nested()
    \* ---- _fetch_providers_async ----
    run_pc,             \* "idle" | "fetch" | "persist" | "done"
    fetch_status,       \* per provider: "pending" | "fetching" | "done" | "failed"
    fetch_results,      \* per provider: (source, jobs) or (source, None)
    summary,            \* the run's counters
    idx,                \* position in fetch_results (phase 2)
    pos,                \* position in the provider's job list
    persist_pc,         \* "upsert" | "dedup": position inside the savepoint
    is_new,             \* result of the upsert_job just made
    in_txn,             \* the session has an open transaction
    outcomes,           \* history: per provider, what became of it and its jobs
    \* ---- _dedup_semantic_batch_async ----
    sweep_pc,           \* "idle" | "loop"
    sweep_jobs,         \* the selected rows not yet processed
    \* ---- one adapter's fetch_jobs (BaseScraper / API provider) ----
    adapter_run,        \* position, locals and history of the call
    \* ---- sessions that run concurrently on one database ----
    compliance_sessions,\* per session: position inside report_block, row loaded
    reports_committed,  \* history: report_block commits since the last reset
    upsert_sessions,    \* per session: position inside upsert_job, its locals
    \* ---- one provider object over successive orchestrator runs ----
    fetcher,            \* position inside the fetch helper, locals and history
    \* ---- the Celery broker ----
    celery,             \* tasks dispatched with .delay() and not yet run
    \* ---- DataNormalizer ----
    normalizer,         \* a record, and what normalize made of it
    \* ---- semantic-dedup sweeps that run concurrently ----
    sweep_sessions      \* per session: position, rows selected, rows updated

cbVars == <<circuit, monotonic, cb_calls, fails_since_success>>
compVars == <<source_compliance>>
tableVars == <<jobs, committed, savepoint>>
runVars == <<run_pc, fetch_status, fetch_results, summary, idx, pos,
             persist_pc, is_new, in_txn, outcomes>>
sweepVars == <<sweep_pc, sweep_jobs>>
sessionVars == <<compliance_sessions, reports_committed, upsert_sessions>>
serviceVars == <<fetcher, celery, normalizer, sweep_sessions>>
nonCbVars == <<source_compliance, now, jobs, committed, savepoint,
               run_pc, fetch_status, fetch_results, summary, idx, pos,
               persist_pc, is_new, in_txn, outcomes, sweep_pc, sweep_jobs,
               adapter_run, sessionVars, serviceVars>>
nonCompVars == <<circuit, monotonic, cb_calls, fails_since_success,
                 jobs, committed, savepoint,
                 run_pc, fetch_status, fetch_results, summary, idx, pos,
                 persist_pc, is_new, in_txn, outcomes, sweep_pc, sweep_jobs,
                 adapter_run, sessionVars, serviceVars>>
vars == <<circuit, monotonic, cb_calls, fails_since_success,
          source_compliance, now,
          jobs, committed, savepoint,
          run_pc, fetch_status, fetch_results, summary, idx, pos,
          persist_pc, is_new, in_txn, outcomes,
          sweep_pc, sweep_jobs, adapter_run,
          compliance_sessions, reports_committed, upsert_sessions,
          fetcher, celery,
          normalizer, sweep_sessions>>

(***************************************************************************)
(* Bounds of the model                                                     *)
(***************************************************************************)
failure_threshold == 2      \* CircuitBreaker(failure_threshold=...)
recovery_timeout == 2       \* CircuitBreaker(recovery_timeout=...)
MaxMonotonic == 5           \* the monotonic clock is followed up to here
MaxFailureCount == 4        \* failures are followed up to this count
MaxCalls == 2               \* caller tasks sharing the breaker
MaxBlocks == 4              \* report_block is followed up to this count
MaxNow == 3                 \* the wall clock is followed up to here
MaxSessions == 2            \* database sessions open at the same time
max_retries == 2            \* fetch_with_retry / fetch_rss (max_retries=...)
MaxRuns == 3                \* successive failed runs are counted up to here

BLOCK_THRESHOLD == 3

(***************************************************************************)
(* CircuitBreaker                                                          *)
(***************************************************************************)
CircuitState == {"closed", "open", "half_open"}
CallIds == 1..MaxCalls

\* CircuitBreaker.__init__ (the statistic _success_count is write-only and
\* is left out; reset() and get_status() have no call site in the program).
CbInit ==
    /\ circuit = [state |-> "closed", failure_count |-> 0, last_failure_time |-> 0]
    /\ monotonic = 0
    /\ cb_calls = [c \in CallIds |->
                     [pc |-> "idle", current_state |-> "none",
                      made_half_open |-> FALSE, outcome |-> "none"]]
    /\ fails_since_success = 0

state_elapsed_always(cb, t) ==
    IF cb.state = "open" THEN "half_open" ELSE cb.state

\* The `state` property: reading it moves OPEN to HALF_OPEN once
\* recovery_timeout has elapsed since the last failure.
state(cb, t) ==
    IF cb.state = "open" /\ t - cb.last_failure_time >= recovery_timeout
    THEN "half_open"
    ELSE cb.state

on_success_keeps_count(cb) ==
    [cb EXCEPT !.state = IF cb.state = "half_open" THEN "closed" ELSE cb.state]

\* _on_success
on_success(cb) ==
    [cb EXCEPT !.failure_count = 0,
               !.state = IF cb.state = "half_open" THEN "closed" ELSE cb.state]

on_failure_strict(cb, t) ==
    [cb EXCEPT !.failure_count = cb.failure_count + 1,
               !.last_failure_time = t,
               !.state = IF cb.failure_count + 1 > failure_threshold
                         THEN "open" ELSE cb.state]

\* _on_failure
on_failure(cb, t) ==
    [cb EXCEPT !.failure_count = cb.failure_count + 1,
               !.last_failure_time = t,
               !.state = IF cb.failure_count + 1 >= failure_threshold
                         THEN "open" ELSE cb.state]

\* call(), up to its suspension point `await coro()`: read the state
\* property (which may store HALF_OPEN), reject when OPEN, else invoke coro.
CbCall(c) ==
    /\ cb_calls[c].pc = "idle"
    /\ LET current_state == state(circuit, monotonic) IN
         /\ circuit' = [circuit EXCEPT !.state = current_state]
         /\ IF current_state = "open"
            THEN cb_calls' = [cb_calls EXCEPT ![c] =
                     [pc |-> "idle", current_state |-> "open",
                      made_half_open |-> FALSE, outcome |-> "circuit_open"]]
            ELSE cb_calls' = [cb_calls EXCEPT ![c] =
                     [pc |-> "awaiting", current_state |-> current_state,
                      made_half_open |-> (circuit.state = "open"),
                      outcome |-> "none"]]
    /\ UNCHANGED <<monotonic, fails_since_success, nonCbVars>>

\* call(), after the suspension point: coro() returned.
CbOpReturns(c) ==
    /\ cb_calls[c].pc = "awaiting"
    /\ circuit' = on_success(circuit)
    /\ cb_calls' = [cb_calls EXCEPT ![c].pc = "idle", ![c].outcome = "result"]
    /\ fails_since_success' = 0
    /\ UNCHANGED <<monotonic, nonCbVars>>

\* call(), after the suspension point: coro() raised.
CbOpRaises(c) ==
    /\ cb_calls[c].pc = "awaiting"
    /\ circuit.failure_count < MaxFailureCount
    /\ circuit' = on_failure(circuit, monotonic)
    /\ cb_calls' = [cb_calls EXCEPT ![c].pc = "idle", ![c].outcome = "error"]
    /\ fails_since_success' = fails_since_success + 1
    /\ UNCHANGED <<monotonic, nonCbVars>>

CbTick ==
    /\ monotonic < MaxMonotonic
    /\ monotonic' = monotonic + 1
    /\ UNCHANGED <<circuit, cb_calls, fails_since_success, nonCbVars>>

(***************************************************************************)
(* ComplianceEngine                                                        *)
(***************************************************************************)
KnownSources == {"medjobs", "schuljobs"}
SourceKeys == KnownSources \cup {"nonexistent"}

ComplianceInit ==
    source_compliance \in
        [KnownSources ->
            [is_allowed : BOOLEAN, robots_txt_ok : BOOLEAN,
             auto_disable_on_block : BOOLEAN,
             consecutive_blocks : {0}, last_blocked_at : {-1}]]

ComplianceFixed ==
    source_compliance =
        [s \in KnownSources |->
            [is_allowed |-> TRUE, robots_txt_ok |-> TRUE,
             auto_disable_on_block |-> TRUE,
             consecutive_blocks |-> 0, last_blocked_at |-> -1]]

\* can_scrape
can_scrape(tbl, source_key) ==
    IF source_key \notin DOMAIN tbl
    THEN FALSE
    ELSE tbl[source_key].is_allowed /\ tbl[source_key].robots_txt_ok

report_block_after_threshold(tbl, source_key, t) ==
    IF source_key \notin DOMAIN tbl
    THEN tbl
    ELSE LET source == tbl[source_key]
             blocks == source.consecutive_blocks + 1
         IN [tbl EXCEPT ![source_key] =
                [source EXCEPT
                    !.consecutive_blocks = blocks,
                    !.last_blocked_at = t,
                    !.is_allowed =
                        IF source.auto_disable_on_block /\ blocks > BLOCK_THRESHOLD
                        THEN FALSE ELSE source.is_allowed]]

\* report_block, run by one session on its own
report_block(tbl, source_key, t) ==
    IF source_key \notin DOMAIN tbl
    THEN tbl
    ELSE LET source == tbl[source_key]
             blocks == source.consecutive_blocks + 1
         IN [tbl EXCEPT ![source_key] =
                [source EXCEPT
                    !.consecutive_blocks = blocks,
                    !.last_blocked_at = t,
                    !.is_allowed =
                        IF source.auto_disable_on_block /\ blocks >= BLOCK_THRESHOLD
                        THEN FALSE ELSE source.is_allowed]]

reset_blocks_reenables(tbl, source_key) ==
    IF source_key \in DOMAIN tbl
    THEN [tbl EXCEPT ![source_key].consecutive_blocks = 0,
                     ![source_key].is_allowed = TRUE]
    ELSE tbl

\* reset_blocks
reset_blocks(tbl, source_key) ==
    IF source_key \notin DOMAIN tbl
    THEN tbl
    ELSE [tbl EXCEPT ![source_key].consecutive_blocks = 0]

ReportBlock(s) ==
    /\ s \in DOMAIN source_compliance => source_compliance[s].consecutive_blocks < MaxBlocks
    /\ source_compliance' = report_block(source_compliance, s, now)
    /\ UNCHANGED <<now, nonCompVars>>

ResetBlocks(s) ==
    /\ source_compliance' = reset_blocks(source_compliance, s)
    /\ UNCHANGED <<now, nonCompVars>>

Tick ==
    /\ now < MaxNow
    /\ now' = now + 1
    /\ UNCHANGED <<source_compliance, nonCompVars>>

(***************************************************************************)
(* Records the providers return (dicts of the unified job schema)          *)
(***************************************************************************)
NULL == "null"

Providers == <<"jobicy", "jooble">>
NumProviders == Len(Providers)

\* Job.__table__.columns, as far as the pipeline reads or writes them
Columns == {"hash", "source", "title", "company", "url", "fuzzy_hash"}

J1 == [hash |-> "h1", source |-> "jobicy",
       title |-> <<"Senior", "Python", "Developer", "(m/f/d)">>,
       company |-> <<"Acme", "AG">>, url |-> "u1", raw_id |-> 1]
J2 == [hash |-> "h2", source |-> "jooble",
       title |-> <<"Python", "Developer">>,
       company |-> <<"Acme">>, url |-> "u2", raw_id |-> 2]
\* same source and same title/company as J1 under another url
J4 == [hash |-> "h4", source |-> "jobicy",
       title |-> <<"Python", "Developer">>,
       company |-> <<"Acme", "GmbH">>, url |-> "u4", raw_id |-> 4]
\* the listing of J2 under another title: same url (jobs.url is UNIQUE)
J5 == [hash |-> "h5", source |-> "jooble",
       title |-> <<"Python", "Engineer">>,
       company |-> <<"Acme">>, url |-> "u2", raw_id |-> 5]
\* a dict without "title": job["title"] raises KeyError
J6 == [hash |-> "h6", source |-> "jooble",
       company |-> <<"Acme">>, url |-> "u6", raw_id |-> 6]

PoolOf(p) ==
    CASE p = "jobicy" -> {J1, J4}
      [] p = "jooble" -> {J2, J5, J6}

Hashes == {"h1", "h2", "h4", "h5", "h6"}

\* the order in which a provider lists its records
Listing(p) ==
    CASE p = "jobicy" -> <<J1, J4>>
      [] p = "jooble" -> <<J6, J2, J5>>

\* what fetch_jobs may return: any part of the provider's listing
Batches(p) ==
    {SelectSeq(Listing(p), LAMBDA j : j \in S) : S \in SUBSET PoolOf(p)}

(***************************************************************************)
(* Deduplicator.compute_fuzzy_hash                                         *)
(***************************************************************************)
SENIORITY_STRIP == {"senior", "junior", "lead", "head", "intern", "trainee",
                    "sr.", "jr.", "sr", "jr", "(m/f/d)", "(m/w/d)", "(f/m/d)",
                    "(w/m/d)", "(m/f/x)", "(w/m/x)", "(all genders)",
                    "m/f/d", "m/w/d", "f/m/d", "w/m/d"}
COMPANY_SUFFIXES == {"ag", "gmbh", "sa", "sarl", "ltd", "inc", "corp", "se",
                     "plc", "srl", "co", "llc", "pty", "bv", "nv"}

\* str.lower() on the words of the records above
Lower(w) ==
    CASE w = "Senior" -> "senior"
      [] w = "Python" -> "python"
      [] w = "Developer" -> "developer"
      [] w = "Engineer" -> "engineer"
      [] w = "Acme" -> "acme"
      [] w = "AG" -> "ag"
      [] w = "GmbH" -> "gmbh"
      [] OTHER -> w

LowerAll(ws) == [i \in 1..Len(ws) |-> Lower(ws[i])]

\* _normalize_title: lowercase, drop the seniority and gender markers
\* (none of the words above contains a marker as a proper substring)
normalize_title(title) ==
    SelectSeq(LowerAll(title), LAMBDA w : w \notin SENIORITY_STRIP)

\* _normalize_company: lowercase, drop the legal suffixes
normalize_company(company) ==
    SelectSeq(LowerAll(company), LAMBDA w : w \notin COMPANY_SUFFIXES)

\* md5 of "norm_title|norm_company", kept as the pair it digests
compute_fuzzy_hash(title, company) ==
    <<normalize_title(title), normalize_company(company)>>

\* JobMatcher.encode on the job text: a point on a line; two embeddings are
\* under the cosine-distance threshold when their points are neighbours
encode(title, company) ==
    CASE "senior" \in {LowerAll(title)[i] : i \in 1..Len(title)} -> 1
      [] "developer" \in {LowerAll(title)[i] : i \in 1..Len(title)} -> 2
      [] OTHER -> 3

cosine_close(e1, e2) == (e1 - e2) \in {-1, 0, 1}

(***************************************************************************)
(* JobRepository and Deduplicator queries, on a table value                *)
(***************************************************************************)
\* upsert_job: the pre-read `exists`
upsert_exists(tbl, values) == values.hash \in DOMAIN tbl

\* upsert_job: the INSERT fails on the UNIQUE index of jobs.url
upsert_raises(tbl, values) ==
    /\ values.hash \notin DOMAIN tbl
    /\ \E h \in DOMAIN tbl : tbl[h].url = values.url

upsert_job_keeps_inactive(tbl, job_dict, t_server, t_client) ==
    LET values == [k \in (DOMAIN job_dict) \cap Columns |-> job_dict[k]]
        h == values.hash
    IN  IF h \in DOMAIN tbl
        THEN [tbl EXCEPT ![h].last_seen_at = t_client]
        ELSE [x \in DOMAIN tbl \cup {h} |->
                IF x = h
                THEN [source |-> values.source, title |-> values.title,
                      company |-> values.company, url |-> values.url,
                      fuzzy_hash |-> values.fuzzy_hash,
                      first_seen_at |-> t_server, last_seen_at |-> t_server,
                      is_active |-> TRUE, duplicate_of |-> NULL,
                      embedding |-> {}]
                ELSE tbl[x]]

upsert_job_restamps_first_seen(tbl, job_dict, t_server, t_client) ==
    LET values == [k \in (DOMAIN job_dict) \cap Columns |-> job_dict[k]]
        h == values.hash
    IN  [x \in DOMAIN tbl \cup {h} |->
            IF x = h
            THEN [source |-> values.source, title |-> values.title,
                  company |-> values.company, url |-> values.url,
                  fuzzy_hash |-> values.fuzzy_hash,
                  first_seen_at |-> t_client, last_seen_at |-> t_client,
                  is_active |-> TRUE,
                  duplicate_of |-> IF h \in DOMAIN tbl
                                   THEN tbl[h].duplicate_of ELSE NULL,
                  embedding |-> IF h \in DOMAIN tbl
                                THEN tbl[h].embedding ELSE {}]
            ELSE tbl[x]]

\* upsert_job: INSERT ... ON CONFLICT (hash) DO UPDATE SET last_seen_at,
\* is_active. Unknown keys are filtered out; the columns the dict does not
\* give take their defaults (first_seen_at, last_seen_at: now() of the
\* transaction; is_active: true; duplicate_of, embedding: NULL).
upsert_job(tbl, job_dict, t_server, t_client) ==
    LET values == [k \in (DOMAIN job_dict) \cap Columns |-> job_dict[k]]
        h == values.hash
    IN  IF h \in DOMAIN tbl
        THEN [tbl EXCEPT ![h].last_seen_at = t_client, ![h].is_active = TRUE]
        ELSE [x \in DOMAIN tbl \cup {h} |->
                IF x = h
                THEN [source |-> values.source, title |-> values.title,
                      company |-> values.company, url |-> values.url,
                      fuzzy_hash |-> values.fuzzy_hash,
                      first_seen_at |-> t_server, last_seen_at |-> t_server,
                      is_active |-> TRUE, duplicate_of |-> NULL,
                      embedding |-> {}]
                ELSE tbl[x]]

mark_duplicate_keeps_active(tbl, job_hash, canonical_hash) ==
    [h \in DOMAIN tbl |->
        IF h = job_hash
        THEN [tbl[h] EXCEPT !.duplicate_of = canonical_hash]
        ELSE tbl[h]]

\* mark_duplicate: UPDATE jobs SET duplicate_of, is_active WHERE hash = ...
mark_duplicate(tbl, job_hash, canonical_hash) ==
    [h \in DOMAIN tbl |->
        IF h = job_hash
        THEN [tbl[h] EXCEPT !.duplicate_of = canonical_hash, !.is_active = FALSE]
        ELSE tbl[h]]

find_fuzzy_duplicate_any_source(tbl, fuzzy_hash, source) ==
    {h \in DOMAIN tbl : tbl[h].fuzzy_hash = fuzzy_hash /\ tbl[h].is_active}

find_fuzzy_duplicate_any_row(tbl, fuzzy_hash, source) ==
    {h \in DOMAIN tbl : tbl[h].fuzzy_hash = fuzzy_hash /\ tbl[h].source # source}

\* find_fuzzy_duplicate: the rows the query may return (LIMIT 1 with no
\* ORDER BY returns any one of them); the empty set stands for None
find_fuzzy_duplicate(tbl, fuzzy_hash, source) ==
    {h \in DOMAIN tbl : /\ tbl[h].fuzzy_hash = fuzzy_hash
                        /\ tbl[h].source # source
                        /\ tbl[h].is_active}

\* find_semantic_duplicates: the rows the query may return (ORDER BY
\* first_seen_at ASC LIMIT 1 returns any row of the earliest first_seen_at)
find_semantic_duplicates(tbl, job_hash, job_embedding) ==
    IF job_embedding = {}
    THEN {}
    ELSE LET match ==
               {h \in DOMAIN tbl :
                   /\ h # job_hash
                   /\ tbl[h].is_active
                   /\ tbl[h].duplicate_of = NULL
                   /\ tbl[h].embedding # {}
                   /\ \E e1 \in tbl[h].embedding, e2 \in job_embedding :
                          cosine_close(e1, e2)}
         IN {h \in match :
                \A g \in match : tbl[h].first_seen_at <= tbl[g].first_seen_at}

(***************************************************************************)
(* _fetch_providers_async                                                  *)
(***************************************************************************)
FETCH_CONCURRENCY == 1      \* settings.FETCH_CONCURRENCY, scaled down

otherThanRun == <<circuit, monotonic, cb_calls, fails_since_success,
                  source_compliance, sweep_pc, sweep_jobs, adapter_run,
                  sessionVars, serviceVars>>

EmptySummary ==
    [providers |-> 0, fetched |-> 0, new |-> 0, updated |-> 0,
     dupes |-> 0, errors |-> 0]

NoResult == [ok |-> FALSE, jobs |-> <<>>]
NoOutcome == [provider |-> "none", jobs |-> <<>>]

RunInit ==
    /\ run_pc = "idle"
    /\ fetch_status = [i \in 1..NumProviders |-> "done"]
    /\ fetch_results = [i \in 1..NumProviders |-> NoResult]
    /\ summary = EmptySummary
    /\ idx = 1
    /\ pos = 1
    /\ persist_pc = "upsert"
    /\ is_new = FALSE
    /\ in_txn = FALSE
    /\ outcomes = [i \in 1..NumProviders |-> NoOutcome]

TableInit ==
    /\ jobs = [h \in {} |-> NULL]
    /\ committed = [h \in {} |-> NULL]
    /\ savepoint = [h \in {} |-> NULL]

\* providers = get_all_providers(); summary = {...: 0}; the gather creates
\* one _fetch_one task per provider
RunStart ==
    /\ run_pc = "idle"
    /\ sweep_pc = "idle"
    /\ run_pc' = "fetch"
    /\ fetch_status' = [i \in 1..NumProviders |-> "pending"]
    /\ fetch_results' = [i \in 1..NumProviders |-> NoResult]
    /\ summary' = EmptySummary
    /\ outcomes' = [i \in 1..NumProviders |-> NoOutcome]
    /\ idx' = 1
    /\ pos' = 1
    /\ UNCHANGED <<persist_pc, is_new, in_txn, now, tableVars, otherThanRun>>

Fetching == {i \in 1..NumProviders : fetch_status[i] = "fetching"}

sem_never_locked(holders) == FALSE

\* asyncio.Semaphore(FETCH_CONCURRENCY).locked(): no permit is left
sem_locked(holders) == Cardinality(holders) >= FETCH_CONCURRENCY

\* _fetch_one: `async with sem` (waiters are served in task order)
FetchAcquire(i) ==
    /\ run_pc = "fetch"
    /\ fetch_status[i] = "pending"
    /\ \A k \in 1..(i - 1) : fetch_status[k] # "pending"
    /\ ~sem_locked(Fetching)
    /\ fetch_status' = [fetch_status EXCEPT ![i] = "fetching"]
    /\ UNCHANGED <<run_pc, fetch_results, summary, idx, pos, persist_pc,
                   is_new, in_txn, outcomes, now, tableVars, otherThanRun>>

\* _fetch_one: fetch_jobs returned; `return source, jobs`
FetchReturns(i, batch) ==
    /\ run_pc = "fetch"
    /\ fetch_status[i] = "fetching"
    /\ fetch_status' = [fetch_status EXCEPT ![i] = "done"]
    /\ fetch_results' = [fetch_results EXCEPT ![i] = [ok |-> TRUE, jobs |-> batch]]
    /\ UNCHANGED <<run_pc, summary, idx, pos, persist_pc,
                   is_new, in_txn, outcomes, now, tableVars, otherThanRun>>

fetch_one_raised_as_empty(results, i) ==
    [results EXCEPT ![i] = [ok |-> TRUE, jobs |-> <<>>]]

\* _fetch_one: `except Exception: return source, None`
fetch_one_raised(results, i) ==
    [results EXCEPT ![i] = [ok |-> FALSE, jobs |-> <<>>]]

FetchRaises(i) ==
    /\ run_pc = "fetch"
    /\ fetch_status[i] = "fetching"
    /\ fetch_status' = [fetch_status EXCEPT ![i] = "failed"]
    /\ fetch_results' = fetch_one_raised(fetch_results, i)
    /\ UNCHANGED <<run_pc, summary, idx, pos, persist_pc,
                   is_new, in_txn, outcomes, now, tableVars, otherThanRun>>

\* asyncio.gather returned; `async with task_session() as db`
GatherDone ==
    /\ run_pc = "fetch"
    /\ \A i \in 1..NumProviders : fetch_status[i] \in {"done", "failed"}
    /\ run_pc' = "persist"
    /\ idx' = 1
    /\ pos' = 1
    /\ persist_pc' = "upsert"
    /\ in_txn' = FALSE
    /\ UNCHANGED <<fetch_status, fetch_results, summary, is_new, outcomes,
                   now, tableVars, otherThanRun>>

InPersist == run_pc = "persist" /\ idx <= NumProviders

\* `if jobs is None: summary["errors"] += 1; continue`
PersistSkipFailed ==
    /\ InPersist
    /\ ~fetch_results[idx].ok
    /\ summary' = [summary EXCEPT !.errors = @ + 1]
    /\ outcomes' = [outcomes EXCEPT ![idx].provider = "fetch_failed"]
    /\ idx' = idx + 1
    /\ pos' = 1
    /\ UNCHANGED <<run_pc, fetch_status, fetch_results, persist_pc, is_new,
                   in_txn, now, tableVars, otherThanRun>>

AtJob ==
    /\ InPersist
    /\ fetch_results[idx].ok
    /\ pos <= Len(fetch_results[idx].jobs)

CurrentJob == fetch_results[idx].jobs[pos]

\* the first statement of a session's transaction fixes SQL now()
TxnNow == IF in_txn THEN now ELSE now + 1

\* DataNormalizer.normalize leaves hash, source, title, company and url as
\* they are; compute_fuzzy_hash reads job["title"] and job["company"]
normalize_raises(job) == "title" \notin DOMAIN job \/ "company" \notin DOMAIN job

with_fuzzy_hash(job) ==
    [k \in DOMAIN job \cup {"fuzzy_hash"} |->
        IF k = "fuzzy_hash"
        THEN compute_fuzzy_hash(job.title, job.company)
        ELSE job[k]]

\* begin_nested; normalize; fuzzy_hash; `is_new = await repo.upsert_job(job)`
PersistUpsert ==
    /\ AtJob
    /\ persist_pc = "upsert"
    /\ in_txn \/ now < MaxNow
    /\ ~normalize_raises(CurrentJob)
    /\ LET job == with_fuzzy_hash(CurrentJob) IN
         /\ ~upsert_raises(jobs, job)
         /\ is_new' = ~upsert_exists(jobs, job)
         /\ jobs' = upsert_job(jobs, job, TxnNow, TxnNow)
    /\ savepoint' = jobs
    /\ now' = TxnNow
    /\ in_txn' = TRUE
    /\ persist_pc' = "dedup"
    /\ UNCHANGED <<run_pc, fetch_status, fetch_results, summary, idx, pos,
                   outcomes, committed, otherThanRun>>

\* an exception inside the savepoint before upsert_job completes: the
\* savepoint is rolled back; `except Exception: summary["errors"] += 1`
PersistUpsertRaises ==
    /\ AtJob
    /\ persist_pc = "upsert"
    /\ in_txn \/ now < MaxNow
    /\ \/ normalize_raises(CurrentJob)
       \/ /\ ~normalize_raises(CurrentJob)
          /\ upsert_raises(jobs, with_fuzzy_hash(CurrentJob))
    /\ summary' = [summary EXCEPT !.errors = @ + 1]
    /\ outcomes' = [outcomes EXCEPT ![idx].jobs = Append(@, "error")]
    /\ pos' = pos + 1
    /\ now' = TxnNow
    /\ in_txn' = TRUE
    /\ UNCHANGED <<run_pc, fetch_status, fetch_results, idx, persist_pc,
                   is_new, tableVars, otherThanRun>>

\* the rest of the savepoint: find_fuzzy_duplicate / mark_duplicate and the
\* counters; the savepoint is released
PersistDedup ==
    /\ AtJob
    /\ persist_pc = "dedup"
    /\ LET job == with_fuzzy_hash(CurrentJob)
           found == find_fuzzy_duplicate(jobs, job.fuzzy_hash, job.source)
       IN IF is_new
          THEN IF found # {}
               THEN \E canonical \in found :
                      /\ jobs' = mark_duplicate(jobs, job.hash, canonical)
                      /\ summary' = [summary EXCEPT !.dupes = @ + 1,
                                                    !.fetched = @ + 1]
                      /\ outcomes' = [outcomes EXCEPT ![idx].jobs = Append(@, "dupe")]
               ELSE /\ jobs' = jobs
                    /\ summary' = [summary EXCEPT !.new = @ + 1, !.fetched = @ + 1]
                    /\ outcomes' = [outcomes EXCEPT ![idx].jobs = Append(@, "new")]
          ELSE /\ jobs' = jobs
               /\ summary' = [summary EXCEPT !.updated = @ + 1, !.fetched = @ + 1]
               /\ outcomes' = [outcomes EXCEPT ![idx].jobs = Append(@, "updated")]
    /\ savepoint' = jobs'
    /\ pos' = pos + 1
    /\ persist_pc' = "upsert"
    /\ UNCHANGED <<run_pc, fetch_status, fetch_results, idx, is_new, in_txn,
                   now, committed, otherThanRun>>

rollback_to_savepoint_noop(tbl, sp) == tbl

\* `async with db.begin_nested()` left by an exception: ROLLBACK TO SAVEPOINT
rollback_to_savepoint(tbl, sp) == sp

\* a statement after upsert_job fails with a DB error: the savepoint is
\* rolled back, undoing the upsert; `except Exception: summary["errors"] += 1`
PersistDedupRaises ==
    /\ AtJob
    /\ persist_pc = "dedup"
    /\ is_new
    /\ jobs' = rollback_to_savepoint(jobs, savepoint)
    /\ summary' = [summary EXCEPT !.errors = @ + 1]
    /\ outcomes' = [outcomes EXCEPT ![idx].jobs = Append(@, "error")]
    /\ pos' = pos + 1
    /\ persist_pc' = "upsert"
    /\ UNCHANGED <<run_pc, fetch_status, fetch_results, idx, is_new, in_txn,
                   now, committed, savepoint, otherThanRun>>

AtEndOfJobs ==
    /\ InPersist
    /\ fetch_results[idx].ok
    /\ pos > Len(fetch_results[idx].jobs)

\* `await db.commit(); summary["providers"] += 1`
PersistCommit ==
    /\ AtEndOfJobs
    /\ committed' = jobs
    /\ summary' = [summary EXCEPT !.providers = @ + 1]
    /\ outcomes' = [outcomes EXCEPT ![idx].provider = "committed"]
    /\ idx' = idx + 1
    /\ pos' = 1
    /\ in_txn' = FALSE
    /\ UNCHANGED <<run_pc, fetch_status, fetch_results, persist_pc, is_new,
                   now, jobs, savepoint, otherThanRun>>

\* the commit fails: `except Exception: await db.rollback();
\* summary["errors"] += 1`
PersistCommitRaises ==
    /\ AtEndOfJobs
    /\ in_txn
    /\ jobs' = committed
    /\ savepoint' = committed
    /\ summary' = [summary EXCEPT !.errors = @ + 1]
    /\ outcomes' = [outcomes EXCEPT ![idx].provider = "rolled_back"]
    /\ idx' = idx + 1
    /\ pos' = 1
    /\ in_txn' = FALSE
    /\ UNCHANGED <<run_pc, fetch_status, fetch_results, persist_pc, is_new,
                   now, committed, otherThanRun>>

\* `return summary`
RunDone ==
    /\ run_pc = "persist"
    /\ idx > NumProviders
    /\ run_pc' = "done"
    /\ UNCHANGED <<fetch_status, fetch_results, summary, idx, pos, persist_pc,
                   is_new, in_txn, outcomes, now, tableVars, otherThanRun>>

\* the task has returned: its locals are gone
RunReturned ==
    /\ run_pc = "done"
    /\ run_pc' = "idle"
    /\ fetch_status' = [i \in 1..NumProviders |-> "done"]
    /\ fetch_results' = [i \in 1..NumProviders |-> NoResult]
    /\ summary' = EmptySummary
    /\ outcomes' = [i \in 1..NumProviders |-> NoOutcome]
    /\ idx' = 1
    /\ pos' = 1
    /\ is_new' = FALSE
    /\ UNCHANGED <<persist_pc, in_txn, now, tableVars, otherThanRun>>

\* the run that follows a completed one with unchanged adapter output (the
\* next scheduled run, or the task delivered once more): phase 1 yields the
\* same fetch_results, phase 2 starts over with a new session
RunAgainSameOutput ==
    /\ run_pc = "done"
    /\ \A i \in 1..NumProviders : fetch_status[i] # "same"
    /\ run_pc' = "persist"
    /\ fetch_status' = [i \in 1..NumProviders |-> "same"]
    /\ summary' = EmptySummary
    /\ outcomes' = [i \in 1..NumProviders |-> NoOutcome]
    /\ idx' = 1
    /\ pos' = 1
    /\ persist_pc' = "upsert"
    /\ is_new' = FALSE
    /\ in_txn' = FALSE
    /\ UNCHANGED <<fetch_results, now, tableVars, otherThanRun>>

(***************************************************************************)
(* _generate_job_embeddings_async and _dedup_semantic_batch_async          *)
(* In Spec the sessions run one after another: a task starts when no       *)
(* other task holds an open transaction.                                   *)
(***************************************************************************)
otherThanSweep == <<circuit, monotonic, cb_calls, fails_since_success,
                    source_compliance, now, run_pc, fetch_status,
                    fetch_results, summary, idx, pos, persist_pc, is_new,
                    in_txn, outcomes, adapter_run, sessionVars, serviceVars>>

NoTaskAtWork == run_pc = "idle" /\ sweep_pc = "idle"

\* the rows generate_job_embeddings selects (batch_size covers them all)
WithoutEmbedding(tbl) ==
    {h \in DOMAIN tbl :
        tbl[h].is_active /\ tbl[h].duplicate_of = NULL /\ tbl[h].embedding = {}}

\* job.embedding = emb.tolist() for each selected row; commit
GenerateEmbeddings ==
    /\ NoTaskAtWork
    /\ WithoutEmbedding(jobs) # {}
    /\ jobs' = [h \in DOMAIN jobs |->
                  IF h \in WithoutEmbedding(jobs)
                  THEN [jobs[h] EXCEPT
                          !.embedding = {encode(jobs[h].title, jobs[h].company)}]
                  ELSE jobs[h]]
    /\ committed' = jobs'
    /\ savepoint' = jobs'
    /\ UNCHANGED <<sweep_pc, sweep_jobs, otherThanSweep>>

\* the rows the sweep selects (batch_size covers them all)
SweepSelected(tbl) ==
    {h \in DOMAIN tbl :
        tbl[h].is_active /\ tbl[h].duplicate_of = NULL /\ tbl[h].embedding # {}}

OldestFirst(tbl, order) ==
    \A i \in 1..Len(order), k \in 1..Len(order) :
        i < k => tbl[order[i]].first_seen_at <= tbl[order[k]].first_seen_at

\* ORDER BY first_seen_at DESC: any order of the rows that never puts an
\* earlier row before a later one
NewestFirst(tbl, order) ==
    \A i \in 1..Len(order), k \in 1..Len(order) :
        i < k => tbl[order[i]].first_seen_at >= tbl[order[k]].first_seen_at

Orders(S) ==
    {f \in [1..Cardinality(S) -> S] : \A i, k \in 1..Cardinality(S) : i # k => f[i] # f[k]}

\* the select at the head of the sweep; each selected Job object keeps the
\* hash and the embedding it was loaded with
SweepStart ==
    /\ NoTaskAtWork
    /\ SweepSelected(jobs) # {}
    /\ \E order \in Orders(SweepSelected(jobs)) :
         /\ NewestFirst(jobs, order)
         /\ sweep_jobs' = [i \in 1..Len(order) |->
                             [hash |-> order[i], embedding |-> jobs[order[i]].embedding]]
    /\ sweep_pc' = "loop"
    /\ UNCHANGED <<tableVars, otherThanSweep>>

\* one turn of `for job in jobs`
SweepStep ==
    /\ sweep_pc = "loop"
    /\ sweep_jobs # <<>>
    /\ LET job == Head(sweep_jobs)
           canonical_hashes == find_semantic_duplicates(jobs, job.hash, job.embedding)
       IN IF canonical_hashes # {}
          THEN \E canonical \in canonical_hashes :
                  jobs' = mark_duplicate(jobs, job.hash, canonical)
          ELSE jobs' = jobs
    /\ sweep_jobs' = Tail(sweep_jobs)
    /\ UNCHANGED <<committed, savepoint, sweep_pc, otherThanSweep>>

\* `await db.commit()`
SweepCommit ==
    /\ sweep_pc = "loop"
    /\ sweep_jobs = <<>>
    /\ committed' = jobs
    /\ savepoint' = jobs
    /\ sweep_pc' = "idle"
    /\ UNCHANGED <<jobs, sweep_jobs, otherThanSweep>>

SweepInit ==
    /\ sweep_pc = "idle"
    /\ sweep_jobs = <<>>

(***************************************************************************)
(* BaseScraper.fetch_jobs and an API provider's fetch_jobs                 *)
(* One call at a time; its HTTP exchanges are the steps.                   *)
(***************************************************************************)
MAX_PAGES == 2              \* BaseScraper.MAX_PAGES, scaled down
PAGE_SIZE == 2              \* BaseScraper.PAGE_SIZE, scaled down

otherThanAdapter == <<circuit, monotonic, cb_calls, fails_since_success, now,
                      jobs, committed, savepoint,
                      run_pc, fetch_status, fetch_results, summary, idx, pos,
                      persist_pc, is_new, in_txn, outcomes,
                      sweep_pc, sweep_jobs, sessionVars, serviceVars>>

IdleAdapter ==
    [pc |-> "idle", kind |-> "none", source |-> "none",
     needs_playwright |-> FALSE, fetch_details |-> FALSE,
     page |-> 1, pending |-> 0, short |-> FALSE, all_jobs |-> 0,
     allowed |-> "none", result |-> "none",
     \* history of the call
     requests |-> 0, blocked |-> FALSE, reports |-> 0,
     after_block |-> FALSE, reset_called |-> FALSE]

AdapterInit == adapter_run = IdleAdapter

Blocked == {"403", "429"}
ListingResponses == {"200", "403", "429", "500", "error", "circuit_open"}
DetailResponses == {"no_url", "200", "403", "429", "500", "error"}

\* scraper.fetch_jobs(...) is entered (_fetch_scrapers_async, one scraper
\* after another); the class flags are those of the scraper
ScraperFetchJobs(s, playwright, details) ==
    /\ adapter_run.pc = "idle"
    /\ adapter_run' = [IdleAdapter EXCEPT !.pc = "pre_check", !.kind = "scraper",
                                          !.source = s,
                                          !.needs_playwright = playwright,
                                          !.fetch_details = details]
    /\ UNCHANGED <<source_compliance, otherThanAdapter>>

pre_check_fails_open(tbl, source_key, db_raises) ==
    IF db_raises THEN TRUE ELSE can_scrape(tbl, source_key)

\* _pre_check: can_scrape in a session of its own; `except Exception:
\* return False`
pre_check(tbl, source_key, db_raises) ==
    IF db_raises THEN FALSE ELSE can_scrape(tbl, source_key)

after_pre_check_ignored(r, allowed) ==
    [r EXCEPT !.pc = "listing", !.allowed = IF allowed THEN "true" ELSE "false"]

\* `if not await self._pre_check(): return []`
after_pre_check(r, allowed) ==
    IF allowed
    THEN [r EXCEPT !.pc = "listing", !.allowed = "true"]
    ELSE [r EXCEPT !.pc = "done", !.allowed = "false", !.result = "empty"]

PreCheck(db_raises) ==
    /\ adapter_run.pc = "pre_check"
    /\ adapter_run' =
          after_pre_check(adapter_run,
                          pre_check(source_compliance, adapter_run.source, db_raises))
    /\ UNCHANGED <<source_compliance, otherThanAdapter>>

\* _report_block: report_block in a session of its own; a DB error is
\* logged and swallowed
scraper_report_block(tbl, source_key, t, db_raises) ==
    IF db_raises THEN tbl ELSE report_block(tbl, source_key, t)

\* _reset_compliance_blocks: likewise
reset_compliance_blocks(tbl, source_key, db_raises) ==
    IF db_raises THEN tbl ELSE reset_blocks(tbl, source_key)

\* a request goes out
issue_request(r) ==
    [r EXCEPT !.requests = @ + 1, !.after_block = @ \/ r.blocked]

\* the end of a turn of `for page in range(1, MAX_PAGES + 1)`
after_page(r, short) ==
    IF short \/ r.page + 1 > MAX_PAGES
    THEN [r EXCEPT !.pc = "post", !.pending = 0]
    ELSE [r EXCEPT !.pc = "listing", !.page = @ + 1, !.pending = 0]

\* one turn of the listing loop, up to the detail requests
\* (_scrape_with_httpx, whose listing request goes through the breaker and
\* does not go out when the circuit is open; _scrape_with_playwright has no
\* breaker, no `!= 200` branch and never fetches details)
ScrapeListing(response, stubs, db_raises) ==
    /\ adapter_run.pc = "listing"
    /\ response = "circuit_open" => ~adapter_run.needs_playwright
    /\ LET r == IF response = "circuit_open" THEN adapter_run
                ELSE issue_request(adapter_run)
           parsed == response = "200" \/ (response = "500" /\ r.needs_playwright)
       IN  CASE response \in {"error", "circuit_open"} ->
                  /\ ~db_raises /\ stubs = 0
                  /\ adapter_run' = [r EXCEPT !.pc = "post"]
                  /\ UNCHANGED source_compliance
             [] response \in Blocked ->
                  /\ stubs = 0
                  /\ r.source \in KnownSources =>
                        source_compliance[r.source].consecutive_blocks < MaxBlocks
                  /\ source_compliance' =
                        scraper_report_block(source_compliance, r.source, now, db_raises)
                  /\ adapter_run' = [r EXCEPT !.pc = "post", !.blocked = TRUE,
                                              !.reports = @ + 1]
             [] response = "500" /\ ~parsed ->
                  /\ ~db_raises /\ stubs = 0
                  /\ adapter_run' = [r EXCEPT !.pc = "post"]
                  /\ UNCHANGED source_compliance
             [] parsed ->
                  /\ ~db_raises
                  /\ UNCHANGED source_compliance
                  /\ IF stubs = 0
                     THEN adapter_run' = [r EXCEPT !.pc = "post"]
                     ELSE IF r.fetch_details /\ ~r.needs_playwright
                     THEN adapter_run' = [r EXCEPT !.pc = "detail", !.pending = stubs,
                                                   !.short = (stubs < PAGE_SIZE)]
                     ELSE adapter_run' =
                            after_page([r EXCEPT !.all_jobs = @ + stubs],
                                       stubs < PAGE_SIZE)
    /\ UNCHANGED otherThanAdapter

\* one turn of `for stub in stubs`: _fetch_detail_httpx when the stub has a
\* detail_url; the stub is appended whatever the response
ScrapeDetail(response, db_raises) ==
    /\ adapter_run.pc = "detail"
    /\ adapter_run.pending > 0
    /\ LET r0 == IF response = "no_url" THEN adapter_run
                 ELSE issue_request(adapter_run)
           r1 == [r0 EXCEPT !.all_jobs = @ + 1, !.pending = @ - 1,
                            !.blocked = @ \/ response \in Blocked,
                            !.reports = IF response \in Blocked THEN @ + 1 ELSE @]
       IN  /\ IF response \in Blocked
              THEN /\ r0.source \in KnownSources =>
                         source_compliance[r0.source].consecutive_blocks < MaxBlocks
                   /\ source_compliance' =
                         scraper_report_block(source_compliance, r0.source, now, db_raises)
              ELSE /\ ~db_raises
                   /\ UNCHANGED source_compliance
           /\ adapter_run' = IF r1.pending = 0 THEN after_page(r1, r1.short) ELSE r1
    /\ UNCHANGED otherThanAdapter

\* results = self._process_raw_jobs(all_raw); `if results: await
\* self._reset_compliance_blocks()`; return
ScrapeFinish(some_valid, db_raises) ==
    /\ adapter_run.pc = "post"
    /\ some_valid => adapter_run.all_jobs > 0
    /\ IF some_valid
       THEN /\ source_compliance' =
                 reset_compliance_blocks(source_compliance, adapter_run.source, db_raises)
            /\ adapter_run' = [adapter_run EXCEPT !.pc = "done", !.result = "jobs",
                                                  !.reset_called = TRUE]
       ELSE /\ ~db_raises
            /\ UNCHANGED source_compliance
            /\ adapter_run' = [adapter_run EXCEPT !.pc = "done", !.result = "empty"]
    /\ UNCHANGED otherThanAdapter

\* an API provider's fetch_jobs (JobicyProvider): the request goes out
\* through the breaker at once; there is no compliance call
ProviderFetchJobs(p, outcome) ==
    /\ adapter_run.pc = "idle"
    /\ adapter_run' = [issue_request(IdleAdapter) EXCEPT
                          !.pc = "done", !.kind = "provider", !.source = p,
                          !.result = outcome]
    /\ UNCHANGED <<source_compliance, otherThanAdapter>>

\* fetch_jobs has returned
AdapterReturned ==
    /\ adapter_run.pc = "done"
    /\ adapter_run' = IdleAdapter
    /\ UNCHANGED <<source_compliance, otherThanAdapter>>

(***************************************************************************)
(* utils.http (fetch_with_retry, fetch_rss) under a provider's breaker,    *)
(* over successive orchestrator runs                                       *)
(***************************************************************************)
otherThanFetcher == <<cb_calls, source_compliance, now, tableVars, runVars,
                      sweepVars, adapter_run, sessionVars, celery,
                      normalizer, sweep_sessions>>

DEFAULT_RETRY_STATUSES == {"429", "500", "502", "503", "504"}

\* what one request may meet: a status (200 with a body that parses, 200
\* with a body that does not), httpx.TimeoutException / ConnectError,
\* another httpx.HTTPError, or an exception no `except` of the helper names
Responses == {"200", "200_bad_json", "204", "404", "429", "500", "501", "503",
              "timeout", "http_error", "raises"}

FetcherInit ==
    fetcher =
        [pc |-> "no_run", entry |-> "none", attempt |-> 0, requests |-> 0,
         result |-> "none",
         \* history of the call
         seen |-> {}, retried_after |-> {},
         \* history of the runs
         failed_runs |-> 0]

\* one turn of `for attempt in range(max_retries + 1)` of fetch_with_retry:
\* "data" (return response.json()), "null" (return None), "retry" (the
\* loop goes on) or "raise" (the exception leaves the helper)
fetch_with_retry(response, attempt) ==
    CASE response = "raises" -> "raise"
      [] response \in {"timeout", "http_error", "200_bad_json"} ->
            IF attempt < max_retries THEN "retry" ELSE "null"
      [] response \in DEFAULT_RETRY_STATUSES /\ attempt < max_retries -> "retry"
      [] response = "200" -> "data"
      [] response = "404" -> "null"
      [] OTHER -> IF attempt = max_retries THEN "null" ELSE "retry"

\* one turn of the loop of fetch_rss (the body is returned as text)
fetch_rss(response, attempt) ==
    CASE response = "raises" -> "raise"
      [] response \in {"200", "200_bad_json"} -> "data"
      [] OTHER -> IF attempt < max_retries THEN "retry" ELSE "null"

\* get_all_providers() / get_all_scrapers(): `cls()` builds a new provider,
\* whose __init__ builds a new CircuitBreaker
ProviderRunBegins ==
    /\ fetcher.pc = "no_run"
    /\ circuit' = [state |-> "closed", failure_count |-> 0, last_failure_time |-> 0]
    /\ fails_since_success' = 0
    /\ fetcher' = [fetcher EXCEPT !.pc = "ready"]
    /\ UNCHANGED <<monotonic, otherThanFetcher>>

\* fetch_jobs: `await self._circuit.call(lambda: <helper>(client, ...))`,
\* up to the first request (a paging provider calls once per page)
ProviderCall(entry) ==
    /\ fetcher.pc \in {"ready", "done"}
    /\ LET current_state == state(circuit, monotonic) IN
         /\ circuit' = [circuit EXCEPT !.state = current_state]
         /\ fetcher' =
               IF current_state = "open"
               THEN [fetcher EXCEPT !.pc = "done", !.entry = entry,
                                    !.result = "circuit_open", !.attempt = 0,
                                    !.requests = 0, !.seen = {},
                                    !.retried_after = {}]
               ELSE [fetcher EXCEPT !.pc = "attempt", !.entry = entry,
                                    !.result = "none", !.attempt = 0,
                                    !.requests = 0, !.seen = {},
                                    !.retried_after = {}]
    /\ UNCHANGED <<monotonic, fails_since_success, otherThanFetcher>>

\* one request of the helper and what follows it: the next turn of the
\* loop, or the return into call() (_on_success), or the exception
\* through call() (_on_failure)
FetchAttempt(response) ==
    /\ fetcher.pc = "attempt"
    /\ LET step == IF fetcher.entry = "fetch_rss"
                   THEN fetch_rss(response, fetcher.attempt)
                   ELSE fetch_with_retry(response, fetcher.attempt)
           f == [fetcher EXCEPT !.requests = @ + 1, !.seen = @ \cup {response}]
       IN  CASE step = "retry" ->
                  /\ fetcher' = [f EXCEPT !.attempt = @ + 1,
                                          !.retried_after = @ \cup {response}]
                  /\ UNCHANGED <<circuit, fails_since_success>>
             [] step = "raise" ->
                  /\ circuit.failure_count < MaxFailureCount
                  /\ fetcher' = [f EXCEPT !.pc = "done", !.result = "raised"]
                  /\ circuit' = on_failure(circuit, monotonic)
                  /\ fails_since_success' = fails_since_success + 1
             [] OTHER ->
                  /\ fetcher' = [f EXCEPT !.pc = "done", !.result = step]
                  /\ circuit' = on_success(circuit)
                  /\ fails_since_success' = 0
    /\ UNCHANGED <<monotonic, otherThanFetcher>>

\* the run is over; the provider object is dropped with the task's locals
ProviderRunEnds ==
    /\ fetcher.pc = "done"
    /\ fetcher' = [fetcher EXCEPT
                      !.pc = "no_run",
                      !.failed_runs = IF fetcher.result = "raised"
                                      THEN (IF @ < MaxRuns THEN @ + 1 ELSE @)
                                      ELSE 0]
    /\ UNCHANGED <<circuit, monotonic, fails_since_success, otherThanFetcher>>

(***************************************************************************)
(* Concurrent sessions (READ COMMITTED, one transaction per call)          *)
(* Each caller opens a session of its own (task_session); a statement      *)
(* reads the rows committed so far, and a session's writes reach the       *)
(* other sessions at its commit.                                           *)
(***************************************************************************)
SessionIds == 1..MaxSessions

otherThanSessions == <<cbVars, jobs, savepoint, runVars, sweepVars, adapter_run,
                       serviceVars>>

IdleSession == [pc |-> "idle", source_key |-> "none", loaded |-> NULL]
IdleUpsert == [pc |-> "idle", job |-> NULL, exists |-> FALSE, is_new |-> "none"]

SessionInit ==
    /\ compliance_sessions = [c \in SessionIds |-> IdleSession]
    /\ reports_committed = [s \in KnownSources |-> 0]
    /\ upsert_sessions = [c \in SessionIds |-> IdleUpsert]

\* report_block: the SELECT; `if source is None: return`
ReportBlockSelect(c, s) ==
    /\ compliance_sessions[c].pc = "idle"
    /\ IF s \in DOMAIN source_compliance
       THEN compliance_sessions' =
              [compliance_sessions EXCEPT ![c] =
                  [pc |-> "loaded", source_key |-> s,
                   loaded |-> source_compliance[s]]]
       ELSE UNCHANGED compliance_sessions
    /\ UNCHANGED <<source_compliance, now, committed, reports_committed,
                   upsert_sessions, otherThanSessions>>

\* the unit of work at commit: UPDATE ... SET <the attributes whose value
\* differs from the one loaded> WHERE id = ...; the other columns keep
\* what the row holds by then
orm_flush(row, loaded, dirty) ==
    [col \in DOMAIN row |->
        IF dirty[col] # loaded[col] THEN dirty[col] ELSE row[col]]

\* report_block: the assignments on the loaded object and `await
\* self.db.commit()`
ReportBlockCommit(c) ==
    /\ compliance_sessions[c].pc = "loaded"
    /\ LET s == compliance_sessions[c].source_key
           loaded == compliance_sessions[c].loaded
           dirty == report_block([source_compliance EXCEPT ![s] = loaded], s, now)[s]
       IN  /\ reports_committed[s] < MaxBlocks
           /\ loaded.consecutive_blocks < MaxBlocks
           /\ source_compliance' =
                 [source_compliance EXCEPT
                     ![s] = orm_flush(source_compliance[s], loaded, dirty)]
           /\ reports_committed' = [reports_committed EXCEPT ![s] = @ + 1]
    /\ compliance_sessions' = [compliance_sessions EXCEPT ![c] = IdleSession]
    /\ UNCHANGED <<now, committed, upsert_sessions, otherThanSessions>>

\* reset_blocks: one UPDATE statement and the commit
ResetBlocksCommit(c, s) ==
    /\ compliance_sessions[c].pc = "idle"
    /\ source_compliance' = reset_blocks(source_compliance, s)
    /\ reports_committed' =
          [k \in KnownSources |-> IF k = s THEN 0 ELSE reports_committed[k]]
    /\ UNCHANGED <<now, committed, compliance_sessions, upsert_sessions,
                   otherThanSessions>>

\* the records the concurrent callers of upsert_job hold
UpsertPool == {J1, J2, J4}

\* upsert_job: the pre-read `exists`, on the rows committed so far
UpsertPreRead(c, job_dict) ==
    /\ upsert_sessions[c].pc = "idle"
    /\ upsert_sessions' =
          [upsert_sessions EXCEPT ![c] =
              [pc |-> "pre_read", job |-> with_fuzzy_hash(job_dict),
               exists |-> upsert_exists(committed, with_fuzzy_hash(job_dict)),
               is_new |-> "none"]]
    /\ UNCHANGED <<source_compliance, now, committed, compliance_sessions,
                   reports_committed, otherThanSessions>>

\* upsert_job: INSERT ... ON CONFLICT (hash) DO UPDATE, which waits for a
\* concurrent writer of the same hash and then meets its row;
\* `return not exists`
UpsertInsert(c) ==
    /\ upsert_sessions[c].pc = "pre_read"
    /\ committed' = upsert_job(committed, upsert_sessions[c].job, now, now)
    /\ upsert_sessions' =
          [upsert_sessions EXCEPT
              ![c].pc = "returned",
              ![c].is_new = IF upsert_sessions[c].exists THEN "false" ELSE "true"]
    /\ UNCHANGED <<source_compliance, now, compliance_sessions,
                   reports_committed, otherThanSessions>>

\* the caller has used the result
UpsertReturned(c) ==
    /\ upsert_sessions[c].pc = "returned"
    /\ upsert_sessions' = [upsert_sessions EXCEPT ![c] = IdleUpsert]
    /\ UNCHANGED <<source_compliance, now, committed, compliance_sessions,
                   reports_committed, otherThanSessions>>

(***************************************************************************)
(* The task chain: fetch_providers -> generate_job_embeddings ->           *)
(* dedup_semantic_batch.  `celery` counts the dispatched tasks of each     *)
(* kind that no worker has taken yet; `returned` is what the task that     *)
(* returned last reported.                                                 *)
(***************************************************************************)
MaxQueued == 2

CeleryInit ==
    celery = [generate_job_embeddings |-> 0, dedup_semantic_batch |-> 0,
              returned |-> [task |-> "none", count |-> 0, dispatched |-> FALSE]]

dispatch_always(result) == TRUE

\* `if result.get("new", 0) > 0:`
dispatch_embeddings(result) == result.new > 0

\* fetch_providers after asyncio.run(...): the chained dispatch, `return
\* result`; the locals of the run are gone
FetchProvidersReturns ==
    /\ run_pc = "done"
    /\ celery' = [celery EXCEPT
                    !.generate_job_embeddings =
                        IF dispatch_embeddings(summary) THEN @ + 1 ELSE @,
                    !.returned = [task |-> "fetch_providers",
                                  count |-> summary.new,
                                  dispatched |-> dispatch_embeddings(summary)]]
    /\ run_pc' = "idle"
    /\ fetch_status' = [i \in 1..NumProviders |-> "done"]
    /\ fetch_results' = [i \in 1..NumProviders |-> NoResult]
    /\ summary' = EmptySummary
    /\ outcomes' = [i \in 1..NumProviders |-> NoOutcome]
    /\ idx' = 1
    /\ pos' = 1
    /\ is_new' = FALSE
    /\ UNCHANGED <<persist_pc, in_txn, now, tableVars, cbVars, compVars,
                   sweepVars, adapter_run, sessionVars, fetcher, normalizer,
                   sweep_sessions>>

\* a worker takes a generate_job_embeddings task: `if not jobs: return`,
\* else embed the selected rows, commit, dedup_semantic_batch.delay()
EmbeddingTaskRuns ==
    /\ NoTaskAtWork
    /\ celery.generate_job_embeddings > 0
    /\ celery.dedup_semantic_batch < MaxQueued
    /\ LET selected == WithoutEmbedding(jobs)
       IN /\ jobs' = [h \in DOMAIN jobs |->
                        IF h \in selected
                        THEN [jobs[h] EXCEPT
                                !.embedding = {encode(jobs[h].title, jobs[h].company)}]
                        ELSE jobs[h]]
          /\ committed' = jobs'
          /\ savepoint' = jobs'
          /\ celery' = [celery EXCEPT
                          !.generate_job_embeddings = @ - 1,
                          !.dedup_semantic_batch =
                              IF selected # {} THEN @ + 1 ELSE @,
                          !.returned = [task |-> "generate_job_embeddings",
                                        count |-> Cardinality(selected),
                                        dispatched |-> selected # {}]]
    /\ UNCHANGED <<sweepVars, now, runVars, cbVars, compVars, adapter_run,
                   sessionVars, fetcher, normalizer,
                   sweep_sessions>>

\* a worker takes a dedup_semantic_batch task: the select at its head (with
\* no row selected the loop and the commit have nothing to do)
SweepTaskStart ==
    /\ NoTaskAtWork
    /\ celery.dedup_semantic_batch > 0
    /\ celery' = [celery EXCEPT
                    !.dedup_semantic_batch = @ - 1,
                    !.returned = [task |-> "none", count |-> 0,
                                  dispatched |-> FALSE]]
    /\ \E order \in Orders(SweepSelected(jobs)) :
         /\ NewestFirst(jobs, order)
         /\ sweep_jobs' = [i \in 1..Len(order) |->
                             [hash |-> order[i], embedding |-> jobs[order[i]].embedding]]
    /\ sweep_pc' = "loop"
    /\ UNCHANGED <<tableVars, now, runVars, cbVars, compVars, adapter_run,
                   sessionVars, fetcher, normalizer,
                   sweep_sessions>>

(***************************************************************************)
(* DataNormalizer.normalize                                                *)
(* A salary column holds 0 where the dict holds None: the code tests the   *)
(* two alike (`if sal_min`) and writes neither.  Amounts are whole numbers *)
(* and the rates are in hundredths, so that int(x * rate * multiplier) is  *)
(* (x * rate * multiplier) \div 100.                                       *)
(***************************************************************************)
MaxSalary == 2

CURRENCY_TO_CHF(currency) ==
    CASE currency = "CHF" -> 100
      [] currency = "EUR" -> 96
      [] currency = "USD" -> 88
      [] currency = "GBP" -> 112
      [] OTHER -> 100

PERIOD_MULTIPLIER(period) ==
    CASE period = "yearly" -> 1
      [] period = "monthly" -> 12
      [] period = "hourly" -> 2080
      [] OTHER -> 1

\* _parse_salary_string on the strings the records below carry
parse_salary_string(text) ==
    CASE text = "20-30 EUR" -> [lo |-> 20, hi |-> 30, currency |-> "EUR"]
      [] text = "30" -> [lo |-> 30, hi |-> 30, currency |-> NULL]
      [] OTHER -> [lo |-> 0, hi |-> 0, currency |-> NULL]

normalize_salary(job) ==
    IF job.salary_min_chf # 0 /\ job.salary_max_chf # 0 THEN job
    ELSE
      LET parse == /\ job.salary_original \notin {NULL, ""}
                   /\ ~(job.salary_min_chf # 0 \/ job.salary_max_chf # 0)
          parsed == parse_salary_string(job.salary_original)
          sal_min == IF parse THEN parsed.lo ELSE job.salary_min_chf
          sal_max == IF parse THEN parsed.hi ELSE job.salary_max_chf
          currency == IF parse /\ parsed.currency # NULL /\ job.salary_currency = NULL
                      THEN parsed.currency ELSE job.salary_currency
          rate == IF currency # NULL THEN CURRENCY_TO_CHF(currency) ELSE 100
          multiplier == IF job.salary_period # NULL
                        THEN PERIOD_MULTIPLIER(job.salary_period) ELSE 1
      IN IF ~(sal_min # 0 \/ sal_max # 0) THEN job
         ELSE [job EXCEPT
                 !.salary_min_chf =
                     IF sal_min # 0 THEN (sal_min * rate * multiplier) \div 100 ELSE @,
                 !.salary_max_chf =
                     IF sal_max # 0 THEN (sal_max * rate * multiplier) \div 100 ELSE @]

\* detect_langs needs 50 characters: the title alone is too short, and the
\* one description of the records below is German text
detect_language(job) ==
    IF job.language # NULL THEN job
    ELSE IF job.description = NULL THEN job
    ELSE [job EXCEPT !.language = "de"]

\* the first level of SENIORITY_PATTERNS with a keyword in the title (the
\* titles below hold no keyword inside a longer word)
infer_seniority(job) ==
    LET title_lower == {Lower(job.title[i]) : i \in 1..Len(job.title)}
    IN IF job.seniority # NULL THEN job
       ELSE IF "lead" \in title_lower THEN [job EXCEPT !.seniority = "lead"]
       ELSE IF "senior" \in title_lower THEN [job EXCEPT !.seniority = "senior"]
       ELSE IF "junior" \in title_lower THEN [job EXCEPT !.seniority = "junior"]
       ELSE job

\* the first type of CONTRACT_PATTERNS with a keyword in employment_type or
\* title
infer_contract_type(job) ==
    LET combined == {job.employment_type} \cup
                    {Lower(job.title[i]) : i \in 1..Len(job.title)}
    IN IF job.contract_type # NULL THEN job
       ELSE IF "trainee" \in combined THEN [job EXCEPT !.contract_type = "internship"]
       ELSE IF "part-time" \in combined THEN [job EXCEPT !.contract_type = "part_time"]
       ELSE IF "full-time" \in combined THEN [job EXCEPT !.contract_type = "full_time"]
       ELSE job

normalize(job) ==
    infer_contract_type(infer_seniority(detect_language(normalize_salary(job))))

\* the dicts the adapters hand over, as far as normalize reads them
RawJobs ==
    [salary_min_chf : 0..MaxSalary, salary_max_chf : 0..MaxSalary,
     salary_original : {NULL, "20-30 EUR"},
     salary_currency : {NULL, "EUR"},
     salary_period : {NULL, "monthly"},
     language : {NULL, "it"},
     description : {NULL, "Wir suchen eine erfahrene Entwicklerin ..."},
     seniority : {NULL, "mid"},
     contract_type : {NULL},
     employment_type : {NULL, "full-time"},
     title : {<<"Senior", "Developer">>, <<"Developer">>}]

NormalizerInit ==
    normalizer = [pc |-> "idle", job |-> NULL, once |-> NULL, twice |-> NULL]

\* job = DataNormalizer.normalize(job)
NormalizeRecord(r) ==
    /\ normalizer.pc = "idle"
    /\ normalizer' = [pc |-> "once", job |-> r, once |-> normalize(r),
                      twice |-> NULL]
    /\ UNCHANGED <<cbVars, compVars, now, tableVars, runVars, sweepVars,
                   adapter_run, sessionVars, fetcher, celery,
                   sweep_sessions>>

\* the normalized dict goes through normalize once more
NormalizeAgain ==
    /\ normalizer.pc = "once"
    /\ normalizer' = [normalizer EXCEPT !.pc = "twice",
                                        !.twice = normalize(normalizer.once)]
    /\ UNCHANGED <<cbVars, compVars, now, tableVars, runVars, sweepVars,
                   adapter_run, sessionVars, fetcher, celery,
                   sweep_sessions>>

(***************************************************************************)
(* Two dedup_semantic_batch tasks at work at once (the daily dispatch and  *)
(* the one chained after the embedding task), each in its own session and  *)
(* transaction.  PostgreSQL runs them READ COMMITTED: a statement sees the *)
(* committed table and the updates of its own transaction; an UPDATE of a  *)
(* row that another open transaction has updated waits for that            *)
(* transaction.                                                            *)
(***************************************************************************)
SweepSessionsInit ==
    sweep_sessions = [s \in SessionIds |-> [pc |-> "idle", jobs |-> <<>>, marks |-> {}]]

\* the table as the statements of session s see it
Visible(s) ==
    [h \in DOMAIN committed |->
        IF \E m \in sweep_sessions[s].marks : m[1] = h
        THEN LET m == CHOOSE m \in sweep_sessions[s].marks : m[1] = h
             IN mark_duplicate(committed, h, m[2])[h]
        ELSE committed[h]]

\* the select at the head of the sweep
SweepSessionStart(s) ==
    /\ NoTaskAtWork
    /\ sweep_sessions[s].pc = "idle"
    /\ SweepSelected(committed) # {}
    /\ \E order \in Orders(SweepSelected(committed)) :
         /\ NewestFirst(committed, order)
         /\ sweep_sessions' =
               [sweep_sessions EXCEPT ![s] =
                  [pc |-> "loop",
                   jobs |-> [i \in 1..Len(order) |->
                               [hash |-> order[i],
                                embedding |-> committed[order[i]].embedding]],
                   marks |-> {}]]
    /\ UNCHANGED <<cbVars, compVars, now, tableVars, runVars, sweepVars,
                   adapter_run, sessionVars, fetcher, celery, normalizer>>

\* one turn of `for job in jobs`
SweepSessionStep(s) ==
    /\ sweep_sessions[s].pc = "loop"
    /\ sweep_sessions[s].jobs # <<>>
    /\ LET job == Head(sweep_sessions[s].jobs)
           canonical_hashes ==
               find_semantic_duplicates(Visible(s), job.hash, job.embedding)
       IN IF canonical_hashes # {}
          THEN /\ \A o \in SessionIds \ {s} :
                     \A m \in sweep_sessions[o].marks : m[1] # job.hash
               /\ \E canonical \in canonical_hashes :
                     sweep_sessions' =
                        [sweep_sessions EXCEPT
                            ![s].jobs = Tail(@),
                            ![s].marks = @ \cup {<<job.hash, canonical>>}]
          ELSE sweep_sessions' = [sweep_sessions EXCEPT ![s].jobs = Tail(@)]
    /\ UNCHANGED <<cbVars, compVars, now, tableVars, runVars, sweepVars,
                   adapter_run, sessionVars, fetcher, celery, normalizer>>

\* `await db.commit()`
SweepSessionCommit(s) ==
    /\ sweep_sessions[s].pc = "loop"
    /\ sweep_sessions[s].jobs = <<>>
    /\ committed' = Visible(s)
    /\ jobs' = committed'
    /\ savepoint' = committed'
    /\ sweep_sessions' = [sweep_sessions EXCEPT
                            ![s] = [pc |-> "idle", jobs |-> <<>>, marks |-> {}]]
    /\ UNCHANGED <<cbVars, compVars, now, runVars, sweepVars,
                   adapter_run, sessionVars, fetcher, celery, normalizer>>

(***************************************************************************)
(* Specifications                                                          *)
(***************************************************************************)
Init ==
    /\ CbInit
    /\ ComplianceFixed
    /\ now = 0
    /\ TableInit
    /\ RunInit
    /\ SweepInit
    /\ AdapterInit
    /\ SessionInit
    /\ FetcherInit
    /\ CeleryInit
    /\ NormalizerInit
    /\ SweepSessionsInit

Next ==
    \/ RunStart
    \/ \E i \in 1..NumProviders : FetchAcquire(i)
    \/ \E i \in 1..NumProviders : \E batch \in Batches(Providers[i]) : FetchReturns(i, batch)
    \/ \E i \in 1..NumProviders : FetchRaises(i)
    \/ GatherDone
    \/ PersistSkipFailed
    \/ PersistUpsert
    \/ PersistUpsertRaises
    \/ PersistDedup
    \/ PersistDedupRaises
    \/ PersistCommit
    \/ PersistCommitRaises
    \/ RunDone
    \/ RunReturned
    \/ GenerateEmbeddings
    \/ SweepStart
    \/ SweepStep
    \/ SweepCommit

Spec == Init /\ [][Next]_vars

InitBreaker == Init

NextBreaker ==
    \/ \E c \in CallIds : CbCall(c)
    \/ \E c \in CallIds : CbOpReturns(c)
    \/ \E c \in CallIds : CbOpRaises(c)
    \/ CbTick

SpecBreaker == InitBreaker /\ [][NextBreaker]_vars

InitCompliance ==
    /\ CbInit
    /\ ComplianceInit
    /\ now = 0
    /\ TableInit
    /\ RunInit
    /\ SweepInit
    /\ AdapterInit
    /\ SessionInit
    /\ FetcherInit
    /\ CeleryInit
    /\ NormalizerInit
    /\ SweepSessionsInit

NextCompliance ==
    \/ \E s \in SourceKeys : ReportBlock(s)
    \/ \E s \in SourceKeys : ResetBlocks(s)
    \/ Tick

SpecCompliance == InitCompliance /\ [][NextCompliance]_vars

InitAdapter == InitCompliance

NextAdapter ==
    \/ \E s \in SourceKeys, playwright \in BOOLEAN, details \in BOOLEAN :
          ScraperFetchJobs(s, playwright, details)
    \/ \E db_raises \in BOOLEAN : PreCheck(db_raises)
    \/ \E response \in ListingResponses, stubs \in 0..PAGE_SIZE, db_raises \in BOOLEAN :
          ScrapeListing(response, stubs, db_raises)
    \/ \E response \in DetailResponses, db_raises \in BOOLEAN :
          ScrapeDetail(response, db_raises)
    \/ \E some_valid \in BOOLEAN, db_raises \in BOOLEAN :
          ScrapeFinish(some_valid, db_raises)
    \/ \E i \in 1..NumProviders, outcome \in {"empty", "jobs", "raised"} :
          ProviderFetchJobs(Providers[i], outcome)
    \/ AdapterReturned

SpecAdapter == InitAdapter /\ [][NextAdapter]_vars

InitComplianceSessions == Init

NextComplianceSessions ==
    \/ \E c \in SessionIds, s \in SourceKeys : ReportBlockSelect(c, s)
    \/ \E c \in SessionIds : ReportBlockCommit(c)
    \/ \E c \in SessionIds, s \in SourceKeys : ResetBlocksCommit(c, s)

SpecComplianceSessions ==
    InitComplianceSessions /\ [][NextComplianceSessions]_vars

InitUpsertSessions == Init

NextUpsertSessions ==
    \/ \E c \in SessionIds, job_dict \in UpsertPool : UpsertPreRead(c, job_dict)
    \/ \E c \in SessionIds : UpsertInsert(c)
    \/ \E c \in SessionIds : UpsertReturned(c)

SpecUpsertSessions == InitUpsertSessions /\ [][NextUpsertSessions]_vars

NextProviderRuns ==
    \/ ProviderRunBegins
    \/ \E entry \in {"fetch_with_retry", "fetch_rss"} : ProviderCall(entry)
    \/ \E response \in Responses : FetchAttempt(response)
    \/ ProviderRunEnds
    \/ CbTick

SpecProviderRuns == Init /\ [][NextProviderRuns]_vars

\* the scheduler dispatches fetch_providers; the workers take the chained
\* tasks in any order, one session at a time
NextTaskChain ==
    \/ celery.generate_job_embeddings < MaxQueued /\ RunStart
    \/ \E i \in 1..NumProviders : FetchAcquire(i)
    \/ \E i \in 1..NumProviders : \E batch \in Batches(Providers[i]) : FetchReturns(i, batch)
    \/ GatherDone
    \/ PersistUpsert
    \/ PersistDedup
    \/ PersistCommit
    \/ RunDone
    \/ FetchProvidersReturns
    \/ EmbeddingTaskRuns
    \/ SweepTaskStart
    \/ SweepStep
    \/ SweepCommit

SpecTaskChain == Init /\ [][NextTaskChain]_vars

\* fetch runs only, each completed run followed by at most one run with the
\* same adapter output
NextRepeatedRuns ==
    \/ RunStart
    \/ \E i \in 1..NumProviders : FetchAcquire(i)
    \/ \E i \in 1..NumProviders : \E batch \in Batches(Providers[i]) : FetchReturns(i, batch)
    \/ \E i \in 1..NumProviders : FetchRaises(i)
    \/ GatherDone
    \/ PersistSkipFailed
    \/ PersistUpsert
    \/ PersistUpsertRaises
    \/ PersistDedup
    \/ PersistDedupRaises
    \/ PersistCommit
    \/ PersistCommitRaises
    \/ RunDone
    \/ RunAgainSameOutput
    \/ RunReturned

SpecRepeatedRuns == Init /\ [][NextRepeatedRuns]_vars

\* fetch runs and the embedding task while no sweep is at work; sweeps that
\* overlap one another
NextConcurrentSweeps ==
    \/ (\A s \in SessionIds : sweep_sessions[s].pc = "idle") /\ RunStart
    \/ \E i \in 1..NumProviders : FetchAcquire(i)
    \/ \E i \in 1..NumProviders : \E batch \in Batches(Providers[i]) : FetchReturns(i, batch)
    \/ GatherDone
    \/ PersistUpsert
    \/ PersistDedup
    \/ PersistCommit
    \/ RunDone
    \/ RunReturned
    \/ (\A s \in SessionIds : sweep_sessions[s].pc = "idle") /\ GenerateEmbeddings
    \/ \E s \in SessionIds : SweepSessionStart(s)
    \/ \E s \in SessionIds : SweepSessionStep(s)
    \/ \E s \in SessionIds : SweepSessionCommit(s)

SpecConcurrentSweeps == Init /\ [][NextConcurrentSweeps]_vars

NextNormalizer ==
    \/ \E r \in RawJobs : NormalizeRecord(r)
    \/ NormalizeAgain

SpecNormalizer == Init /\ [][NextNormalizer]_vars

(***************************************************************************)
(* Properties                                                              *)
(***************************************************************************)
IsActiveDuplicate(tbl, h) ==
    h \in DOMAIN tbl /\ tbl[h].duplicate_of # NULL /\ tbl[h].is_active

\* C1 (as claimed): in every state of the jobs table, a row with
\* duplicate_of != null has is_active = false.
C1_DuplicateImpliesInactive ==
    \A h \in DOMAIN committed :
        committed[h].duplicate_of # NULL => ~committed[h].is_active

\* C1 (amended): a row with duplicate_of != null is inactive from the moment
\* it is marked until upsert_job is called again for its hash; only that
\* upsert makes such a row active (it re-activates and keeps duplicate_of).
C1_DuplicateInactiveUntilResighted ==
    [][\A h \in DOMAIN jobs' :
          IsActiveDuplicate(jobs', h) =>
             \/ IsActiveDuplicate(jobs, h)
             \/ /\ PersistUpsert
                /\ h = CurrentJob.hash
                /\ h \in DOMAIN jobs
                /\ jobs[h].duplicate_of # NULL
                /\ ~jobs[h].is_active]_vars

C1_Witness ==
    \E h \in DOMAIN committed :
        /\ IsActiveDuplicate(committed, h)
        /\ committed[h].last_seen_at > committed[h].first_seen_at

\* C2: upsert_job returns true iff no row with the record's hash existed;
\* on an existing row it returns false, sets is_active = true and
\* last_seen_at = now, and leaves every other column of the row as it was.
C2_UpsertContract ==
    [][PersistUpsert =>
          LET h == CurrentJob.hash IN
            /\ is_new' = (h \notin DOMAIN jobs)
            /\ h \in DOMAIN jobs'
            /\ jobs'[h].is_active
            /\ jobs'[h].last_seen_at = now'
            /\ h \in DOMAIN jobs =>
                 jobs'[h] = [jobs[h] EXCEPT !.is_active = TRUE,
                                            !.last_seen_at = now']]_vars

C2_Witness ==
    /\ run_pc = "persist"
    /\ persist_pc = "dedup"
    /\ ~is_new
    /\ LET h == CurrentJob.hash IN
         /\ ~savepoint[h].is_active
         /\ jobs[h].is_active
         /\ jobs[h].last_seen_at > savepoint[h].last_seen_at
         /\ jobs[h].first_seen_at = savepoint[h].first_seen_at
         /\ jobs[h].duplicate_of # NULL

FuzzyHashes == {compute_fuzzy_hash(j.title, j.company) : j \in {J1, J2, J4, J5}}
Sources == {Providers[i] : i \in 1..NumProviders}

\* C3: a newly inserted record whose fuzzy_hash equals that of an active row
\* of another source is marked duplicate_of such a row and deactivated; a
\* record is marked only on account of an active row of another source;
\* find_fuzzy_duplicate(fh, src) never returns a row of source src nor an
\* inactive row.
C3_FuzzyDedupCrossSourceOnly ==
    /\ [](\A fh \in FuzzyHashes, src \in Sources :
            \A h \in find_fuzzy_duplicate(jobs, fh, src) :
                jobs[h].source # src /\ jobs[h].is_active)
    /\ [][(PersistDedup /\ is_new) =>
            LET job == with_fuzzy_hash(CurrentJob)
                others == {g \in DOMAIN jobs :
                              /\ jobs[g].fuzzy_hash = job.fuzzy_hash
                              /\ jobs[g].source # job.source
                              /\ jobs[g].is_active}
            IN  /\ others # {} =>
                     /\ jobs'[job.hash].duplicate_of \in others
                     /\ ~jobs'[job.hash].is_active
                /\ others = {} =>
                     /\ jobs'[job.hash].duplicate_of = NULL
                     /\ jobs'[job.hash].is_active]_vars

C3_Witness ==
    /\ "h1" \in DOMAIN committed /\ "h4" \in DOMAIN committed /\ "h2" \in DOMAIN committed
    /\ committed["h1"].is_active /\ committed["h1"].duplicate_of = NULL
    /\ committed["h4"].is_active /\ committed["h4"].duplicate_of = NULL
    /\ committed["h1"].fuzzy_hash = committed["h4"].fuzzy_hash
    /\ committed["h2"].fuzzy_hash = committed["h1"].fuzzy_hash
    /\ committed["h2"].duplicate_of \in {"h1", "h4"}
    /\ ~committed["h2"].is_active

\* C4: report_block on a known source adds exactly 1 to consecutive_blocks
\* and turns is_allowed false iff auto_disable_on_block holds and the new
\* count is >= 3 (so never when auto_disable_on_block is false); once the
\* kill-switch has tripped, can_scrape is false.
C4_KillSwitch ==
    [][\A s \in KnownSources :
          /\ (ReportBlock(s) =>
                LET old == source_compliance[s]
                    new == source_compliance'[s]
                    tripped == old.auto_disable_on_block
                                 /\ new.consecutive_blocks >= BLOCK_THRESHOLD
                IN  /\ new.consecutive_blocks = old.consecutive_blocks + 1
                    /\ new.is_allowed = (old.is_allowed /\ ~tripped)
                    /\ ~old.auto_disable_on_block => new.is_allowed = old.is_allowed
                    /\ tripped => ~can_scrape(source_compliance', s))
          /\ (~source_compliance[s].is_allowed =>
                ~can_scrape(source_compliance', s))]_vars

C4_Witness ==
    \E s, u \in KnownSources :
        /\ source_compliance[s].auto_disable_on_block
        /\ source_compliance[s].robots_txt_ok
        /\ source_compliance[s].consecutive_blocks = BLOCK_THRESHOLD
        /\ ~source_compliance[s].is_allowed
        /\ ~source_compliance[u].auto_disable_on_block
        /\ source_compliance[u].consecutive_blocks > BLOCK_THRESHOLD
        /\ source_compliance[u].is_allowed

\* C5: failure_count is the number of failed calls since the last successful
\* call; the breaker goes from CLOSED to OPEN exactly at the failure that
\* brings that number to failure_threshold, and stays CLOSED before.
C5_OpensExactlyAtThreshold ==
    /\ [](circuit.failure_count = fails_since_success)
    /\ [](circuit.state = "closed" => fails_since_success < failure_threshold)
    /\ [][\A c \in CallIds :
            CbOpRaises(c) =>
              /\ fails_since_success' >= failure_threshold => circuit'.state = "open"
              /\ (circuit.state = "closed" /\ fails_since_success' < failure_threshold)
                    => circuit'.state = "closed"]_vars
    /\ [][(circuit.state = "closed" /\ circuit'.state = "open") =>
            /\ fails_since_success' = failure_threshold
            /\ \E c \in CallIds : CbOpRaises(c)]_vars

C5_Witness ==
    /\ circuit.state = "open"
    /\ fails_since_success = failure_threshold
    /\ \A c \in CallIds : cb_calls[c].pc = "idle"

\* C6: while OPEN with less than recovery_timeout elapsed since the last
\* failure, call(op) raises CircuitBreakerOpen, does not invoke op, and
\* leaves state, failure_count and the last-failure time as they were.
C6_OpenRejects ==
    [][\A c \in CallIds :
          (/\ CbCall(c)
           /\ circuit.state = "open"
           /\ monotonic - circuit.last_failure_time < recovery_timeout) =>
             /\ circuit' = circuit
             /\ cb_calls'[c].pc = "idle"
             /\ cb_calls'[c].outcome = "circuit_open"]_vars

C6_Witness ==
    /\ circuit.state = "open"
    /\ monotonic - circuit.last_failure_time < recovery_timeout
    /\ \E c \in CallIds : cb_calls[c].outcome = "circuit_open"

\* C7 (as claimed): the call admitted once recovery_timeout has elapsed
\* (the one that finds the breaker OPEN and makes it HALF_OPEN) leaves the
\* breaker CLOSED with failure_count = 0 when it succeeds.
C7_ProbeSuccessCloses ==
    [][\A c \in CallIds :
          (CbOpReturns(c) /\ cb_calls[c].made_half_open) =>
             /\ circuit'.state = "closed"
             /\ circuit'.failure_count = 0]_vars

\* C8 (as claimed): whenever a call admitted while HALF_OPEN fails, the
\* breaker becomes OPEN.
C8_HalfOpenFailureOpens ==
    [][\A c \in CallIds :
          (CbOpRaises(c) /\ cb_calls[c].current_state = "half_open") =>
             circuit'.state = "open"]_vars

\* C9 (as claimed): while a call admitted in HALF_OPEN has not completed,
\* every further call is rejected, so at most one probe is in flight.
C9_AtMostOneProbe ==
    Cardinality({c \in CallIds :
                    /\ cb_calls[c].pc = "awaiting"
                    /\ cb_calls[c].current_state = "half_open"}) <= 1

CountOutcome(i, what) ==
    Cardinality({k \in 1..Len(outcomes[i].jobs) : outcomes[i].jobs[k] = what})

RECURSIVE SumOver(_, _)
SumOver(f, n) == IF n = 0 THEN 0 ELSE f[n] + SumOver(f, n - 1)

TotalOutcome(what) ==
    SumOver([i \in 1..NumProviders |-> CountOutcome(i, what)], NumProviders)

ProvidersWith(what) ==
    Cardinality({i \in 1..NumProviders : outcomes[i].provider = what})

\* C10: a provider whose fetch raised does not stop the run: at the end of
\* the run it accounts for one error and is not counted in providers, its
\* turn in phase 2 changes nothing but errors, and every record of every
\* other provider has been processed, counted and (where its provider's
\* commit went through) persisted.
C10_FetchFailureIsolated ==
    /\ [](run_pc = "done" =>
            /\ \A i \in 1..NumProviders :
                 /\ fetch_status[i] = "failed" <=> outcomes[i].provider = "fetch_failed"
                 /\ fetch_status[i] = "done" =>
                      /\ outcomes[i].provider \in {"committed", "rolled_back"}
                      /\ Len(outcomes[i].jobs) = Len(fetch_results[i].jobs)
                 /\ outcomes[i].provider = "committed" =>
                      \A k \in 1..Len(outcomes[i].jobs) :
                         outcomes[i].jobs[k] # "error" =>
                            fetch_results[i].jobs[k].hash \in DOMAIN committed
            /\ summary.providers = ProvidersWith("committed")
            /\ summary.errors = ProvidersWith("fetch_failed")
                                  + ProvidersWith("rolled_back")
                                  + TotalOutcome("error")
            /\ summary.new = TotalOutcome("new")
            /\ summary.updated = TotalOutcome("updated")
            /\ summary.dupes = TotalOutcome("dupe"))
    /\ [][(run_pc = "persist" /\ idx <= NumProviders /\ fetch_status[idx] = "failed") =>
            /\ jobs' = jobs
            /\ committed' = committed
            /\ summary' = [summary EXCEPT !.errors = @ + 1]
            /\ idx' = idx + 1]_vars

C10_Witness ==
    /\ run_pc = "done"
    /\ fetch_status[1] = "failed"
    /\ fetch_status[2] = "done"
    /\ summary.errors = 1
    /\ summary.providers = 1
    /\ summary.new = 1
    /\ summary.fetched = 1


(***************************************************************************)
(* C11: a record whose processing fails inside its savepoint (normalize    *)
(* raises, upsert_job raises, or a statement after upsert_job raises)      *)
(* leaves the jobs table as it was before that record and adds one to      *)
(* errors; when the adapter's batch is committed, every other record of    *)
(* the batch, before or after the failed one, has its row committed.       *)
(***************************************************************************)
C11_PoisonRecordIsolated ==
    [][ /\ PersistUpsertRaises =>
              /\ jobs' = jobs
              /\ summary'.errors = summary.errors + 1
        /\ PersistDedupRaises =>
              /\ CurrentJob.hash \in DOMAIN jobs
              /\ DOMAIN jobs' = DOMAIN jobs \ {CurrentJob.hash}
              /\ \A h \in DOMAIN jobs' : jobs'[h] = jobs[h]
              /\ summary'.errors = summary.errors + 1
        /\ PersistCommit =>
              \A k \in 1..Len(fetch_results[idx].jobs) :
                  outcomes[idx].jobs[k] # "error" =>
                      fetch_results[idx].jobs[k].hash \in DOMAIN committed'
      ]_vars

\* a committed batch whose first and last records failed and whose middle
\* record is in the committed table
C11_Witness ==
    \E i \in 1..NumProviders :
        /\ run_pc = "persist"
        /\ outcomes[i].provider = "committed"
        /\ Len(outcomes[i].jobs) = 3
        /\ outcomes[i].jobs[1] = "error"
        /\ outcomes[i].jobs[2] # "error"
        /\ outcomes[i].jobs[3] = "error"
        /\ fetch_results[i].jobs[2].hash \in DOMAIN committed
        /\ fetch_results[i].jobs[1].hash \notin DOMAIN committed
        /\ summary.errors >= 2

(***************************************************************************)
(* C12: during phase 1 of a provider run at most FETCH_CONCURRENCY         *)
(* adapters are inside fetch_jobs at any moment, whatever the order in     *)
(* which the calls return or raise.                                        *)
(***************************************************************************)
C12_BoundedFetchConcurrency ==
    /\ Cardinality(Fetching) <= FETCH_CONCURRENCY
    /\ Fetching # {} => run_pc = "fetch"

\* every permit is taken and an adapter is waiting for one
C12_Witness ==
    /\ run_pc = "fetch"
    /\ Cardinality(Fetching) = FETCH_CONCURRENCY
    /\ \E j \in 1..NumProviders : fetch_status[j] = "pending"

(***************************************************************************)
(* C13: when the compliance pre-check raises, its result is false; and     *)
(* when can_scrape is false or the pre-check raises, the scraper's         *)
(* fetch_jobs returns an empty list without having issued a listing or a   *)
(* detail request.                                                         *)
(***************************************************************************)
C13_PreCheckFailsClosed ==
    /\ [][ \/ PreCheck(TRUE)
           \/ /\ adapter_run.pc = "pre_check"
              /\ ~can_scrape(source_compliance, adapter_run.source)
           => /\ adapter_run'.allowed = "false"
              /\ adapter_run'.pc = "done"
              /\ adapter_run'.result = "empty"
              /\ adapter_run'.requests = 0 ]_vars
    /\ [](adapter_run.allowed = "false" =>
              /\ adapter_run.pc = "done"
              /\ adapter_run.result = "empty"
              /\ adapter_run.requests = 0)

\* the pre-check raised for a source that compliance allows, and fetch_jobs
\* returned the empty list
C13_Witness ==
    /\ adapter_run.kind = "scraper"
    /\ adapter_run.pc = "done"
    /\ adapter_run.allowed = "false"
    /\ adapter_run.result = "empty"
    /\ can_scrape(source_compliance, adapter_run.source)

(***************************************************************************)
(* C14, as stated: whatever the adapter, API provider or HTML scraper, a   *)
(* request has gone out in a run only if can_scrape returned true earlier  *)
(* in that run.                                                            *)
(***************************************************************************)
C14_EveryAdapterGated ==
    adapter_run.requests > 0 => adapter_run.allowed = "true"

(***************************************************************************)
(* C14, amended: an HTML scraper sends a request in a run only after       *)
(* can_scrape returned true in that run, and the first request of a run    *)
(* leaves from the listing loop that the pre-check opened; an API          *)
(* provider's fetch_jobs consults no compliance row.                       *)
(***************************************************************************)
C14_ScrapersGated ==
    /\ [](adapter_run.kind = "scraper" /\ adapter_run.requests > 0 =>
              adapter_run.allowed = "true")
    /\ [](adapter_run.kind = "scraper" /\ adapter_run.pc \in {"listing", "detail", "post"} =>
              adapter_run.allowed = "true")
    /\ [][adapter_run'.kind = "provider" /\ adapter_run.kind # "provider" =>
              /\ adapter_run'.allowed = "none"
              /\ source_compliance' = source_compliance]_vars

\* a scraper that passed the pre-check and has sent a request
C14_Witness ==
    /\ adapter_run.kind = "scraper"
    /\ adapter_run.requests > 0
    /\ adapter_run.allowed = "true"
    /\ can_scrape(source_compliance, adapter_run.source)

(***************************************************************************)
(* C15: within one scraper run, every 403 or 429 response has been         *)
(* reported to the compliance engine, and after such a response no         *)
(* further request goes out in that run.                                   *)
(***************************************************************************)
C15_BlockReportedAndAborts ==
    /\ adapter_run.blocked => adapter_run.reports > 0
    /\ ~adapter_run.after_block

(***************************************************************************)
(* C16: a scraper run that reported a 403/429 block does not call          *)
(* reset_blocks, so it never zeroes consecutive_blocks.                    *)
(***************************************************************************)
C16_ResetOnlyOnFullSuccess ==
    adapter_run.reset_called => adapter_run.reports = 0

(***************************************************************************)
(* C17: once is_allowed is false for a source, no step of a scraper run    *)
(* or of an API provider (pre-check, report_block, reset_blocks) sets it   *)
(* back to true, and can_scrape stays false for that source.               *)
(***************************************************************************)
C17_DisabledStaysDisabled ==
    [][\A s \in KnownSources :
          ~source_compliance[s].is_allowed =>
              /\ ~source_compliance'[s].is_allowed
              /\ ~can_scrape(source_compliance', s)]_vars

\* the run that tripped the kill-switch ended with jobs: reset_blocks zeroed
\* the counter of the disabled source and left it disabled
C17_Witness ==
    /\ adapter_run.kind = "scraper"
    /\ adapter_run.allowed = "true"
    /\ adapter_run.reset_called
    /\ adapter_run.source \in KnownSources
    /\ ~source_compliance[adapter_run.source].is_allowed
    /\ source_compliance[adapter_run.source].consecutive_blocks = 0
    /\ ~can_scrape(source_compliance, adapter_run.source)

(***************************************************************************)
(* C18: concurrent report_block and reset_blocks calls on one source take  *)
(* effect as if run one at a time: consecutive_blocks equals the number    *)
(* of report_block calls committed since the last reset, so no block is    *)
(* lost, and a source with auto_disable_on_block is disabled once          *)
(* BLOCK_THRESHOLD of them have been committed.                            *)
(***************************************************************************)
C18_ReportsSerializable ==
    \A s \in KnownSources :
        /\ source_compliance[s].consecutive_blocks = reports_committed[s]
        /\ (/\ reports_committed[s] >= BLOCK_THRESHOLD
            /\ source_compliance[s].auto_disable_on_block)
              => ~source_compliance[s].is_allowed

(***************************************************************************)
(* C19: two upsert_job calls for the same hash that run concurrently in    *)
(* different sessions leave exactly one row for it, and the two calls do   *)
(* not both return is_new = true.                                          *)
(***************************************************************************)
C19_OneNewPerHash ==
    \A c1, c2 \in SessionIds :
        (/\ c1 # c2
         /\ upsert_sessions[c1].pc = "returned"
         /\ upsert_sessions[c2].pc = "returned"
         /\ upsert_sessions[c1].job.hash = upsert_sessions[c2].job.hash)
          => /\ upsert_sessions[c1].job.hash \in DOMAIN committed
             /\ ~(/\ upsert_sessions[c1].is_new = "true"
                  /\ upsert_sessions[c2].is_new = "true")

(***************************************************************************)
(* C20: when a new sighting has several active rows of other sources with  *)
(* its fuzzy_hash, the hash written to its duplicate_of is that of a row   *)
(* with the earliest first_seen_at among them.                             *)
(***************************************************************************)
C20_OldestIsCanonical ==
    [][PersistDedup /\ is_new =>
          LET job == with_fuzzy_hash(CurrentJob)
              found == find_fuzzy_duplicate(jobs, job.fuzzy_hash, job.source)
          IN  found # {} =>
                /\ jobs'[job.hash].duplicate_of \in found
                /\ \A g \in found :
                      jobs[jobs'[job.hash].duplicate_of].first_seen_at
                          <= jobs[g].first_seen_at]_vars

C22_CanonicalIsLive ==
    \A h \in DOMAIN jobs :
        jobs[h].duplicate_of # NULL =>
            /\ jobs[h].duplicate_of \in DOMAIN jobs
            /\ jobs[jobs[h].duplicate_of].is_active
            /\ jobs[jobs[h].duplicate_of].duplicate_of = NULL

(***************************************************************************)
(* C23: a call of fetch_with_retry or fetch_rss sends at most              *)
(* max_retries + 1 requests; it sends another request only after a         *)
(* response with status 429, 500, 502, 503 or 504 or after a transport     *)
(* error; and once a 4xx status other than 429 has come back it has        *)
(* returned null with that single request.                                 *)
(***************************************************************************)
C23_RetryPolicy ==
    /\ fetcher.requests <= max_retries + 1
    /\ fetcher.retried_after \subseteq
          DEFAULT_RETRY_STATUSES \cup {"timeout", "http_error"}
    /\ "404" \in fetcher.seen =>
          /\ fetcher.requests = 1
          /\ fetcher.pc \in {"done", "no_run"}
          /\ fetcher.result = "null"

(***************************************************************************)
(* C24: a provider call whose every request failed with a transient error  *)
(* until the retries were exhausted adds exactly one to the failure_count  *)
(* of the provider's circuit breaker.                                      *)
(***************************************************************************)
C24_ExhaustedRetriesCountOnce ==
    [][(/\ fetcher.pc = "attempt"
        /\ fetcher'.pc = "done"
        /\ fetcher'.requests = max_retries + 1
        /\ fetcher'.seen \subseteq {"429", "500", "503", "timeout", "http_error"})
          => circuit'.failure_count = circuit.failure_count + 1]_vars

(***************************************************************************)
(* C29: the breaker of a source is the same object from one orchestrator   *)
(* run to the next, so after failure_threshold successive runs whose call  *)
(* failed it is OPEN.                                                      *)
(***************************************************************************)
C29_BreakerCarriesOver ==
    /\ [][ProviderRunBegins => circuit' = circuit]_vars
    /\ [](fetcher.pc = "no_run" /\ fetcher.failed_runs >= failure_threshold =>
              circuit.state = "open")

\* C25: a fetch run that returns with new > 0 dispatches one embedding task
\* and a run with new = 0 dispatches none; every embedding task that a
\* worker completes dispatches one semantic-dedup sweep.
C25_ChainAlwaysContinues ==
    /\ [][FetchProvidersReturns =>
            celery'.generate_job_embeddings =
                celery.generate_job_embeddings + (IF summary.new > 0 THEN 1 ELSE 0)]_vars
    /\ [][EmbeddingTaskRuns =>
            celery'.dedup_semantic_batch = celery.dedup_semantic_batch + 1]_vars

\* C25 (amended): a fetch run that returns with new > 0 dispatches one
\* embedding task and a run with new = 0 dispatches none; an embedding task
\* dispatches one semantic-dedup sweep when it embedded at least one row, and
\* none when it found no row to embed.
C25_ChainContinuesWhenRowsEmbedded ==
    /\ [][FetchProvidersReturns =>
            celery'.generate_job_embeddings =
                celery.generate_job_embeddings + (IF summary.new > 0 THEN 1 ELSE 0)]_vars
    /\ [][EmbeddingTaskRuns =>
            celery'.dedup_semantic_batch =
                celery.dedup_semantic_batch +
                    (IF WithoutEmbedding(jobs) # {} THEN 1 ELSE 0)]_vars
    /\ [](celery.returned.task = "fetch_providers" =>
              (celery.returned.dispatched <=> celery.returned.count > 0))
    /\ [](celery.returned.task = "generate_job_embeddings" =>
              (celery.returned.dispatched <=> celery.returned.count > 0))

\* an embedding task dispatched by a run with new rows has returned without
\* a row to embed, and no sweep was dispatched for it
C25_Witness ==
    /\ celery.returned.task = "generate_job_embeddings"
    /\ celery.returned.count = 0
    /\ ~celery.returned.dispatched
    /\ celery.dedup_semantic_batch = 0

\* C26: for every record r, normalize(normalize(r)) = normalize(r), also
\* when only one of salary_min_chf / salary_max_chf is set, or the currency
\* is not CHF, or the period is not yearly.
C26_NormalizeIdempotent ==
    normalizer.pc = "twice" => normalizer.twice = normalizer.once

\* C27: while a run processes the same batches as the run before it, no
\* step changes the is_active or the duplicate_of of a committed row, that
\* is of a row that the first processing left in the table (last_seen_at
\* may change).
C27_ReprocessingKeepsRows ==
    [][(run_pc = "persist" /\ \A i \in 1..NumProviders : fetch_status[i] = "same") =>
          \A h \in DOMAIN committed :
              /\ h \in DOMAIN jobs'
              /\ jobs'[h].is_active = jobs[h].is_active
              /\ jobs'[h].duplicate_of = jobs[h].duplicate_of]_vars

\* C30: at the end of a fetch run fetched = new + updated + dupes; every
\* record of an adapter whose fetch succeeded is counted once, under new,
\* updated, dupes or errors; and the rows the run inserted and committed
\* are as many as new + dupes.
C30_SummaryMatchesTable ==
    run_pc = "done" =>
        /\ summary.fetched = summary.new + summary.updated + summary.dupes
        /\ \A i \in 1..NumProviders :
              fetch_results[i].ok => Len(outcomes[i].jobs) = Len(fetch_results[i].jobs)
        /\ summary.new = TotalOutcome("new")
        /\ summary.updated = TotalOutcome("updated")
        /\ summary.dupes = TotalOutcome("dupe")
        /\ summary.new + summary.dupes =
              Cardinality({ik \in (1..NumProviders) \X (1..Len(Listing("jooble"))) :
                             /\ ik[2] <= Len(outcomes[ik[1]].jobs)
                             /\ outcomes[ik[1]].jobs[ik[2]] \in {"new", "dupe"}
                             /\ fetch_results[ik[1]].jobs[ik[2]].hash \in DOMAIN committed})

\* C28: whatever the interleaving of fetch runs and semantic-dedup sweeps,
\* two sweeps in separate transactions included, the committed duplicate_of
\* relation has no self-reference and no cycle: every non-empty set of rows
\* holds a row whose duplicate_of leads out of the set.
C28_NoDuplicateCycle ==
    \A S \in SUBSET DOMAIN committed :
        S # {} => \E h \in S : committed[h].duplicate_of \notin S

====
